---- MODULE Spec2Model ----
(***************************************************************************)
(* Session / driver-pool lifecycle of linkedin_mcp_server:                 *)
(*   session_manager.py  (_sessions, _session_lock, create_or_update_      *)
(*                        session, get_session_cookie, close_session,      *)
(*                        close_all_sessions)                              *)
(*   drivers/chrome.py   (active_drivers, login_with_cookie,               *)
(*                        login_to_linkedin, get_or_create_driver,         *)
(*                        close_driver, close_all_drivers)                 *)
(*   web/agent.py        (SimpleLinkedInAgent._history, _record,           *)
(*                        handle_message, _success)                        *)
(* Threads are processes; every step is one access to a shared map, one    *)
(* lock operation or one blocking browser call.                            *)
(***************************************************************************)
EXTENDS Integers, Sequences, FiniteSets, TLC

VARIABLES sessions, active_drivers, drv, lock, pc, loc, ret, history, chat

vars == <<sessions, active_drivers, drv, lock, pc, loc, ret, history, chat>>

(***************************************************************************)
(* Bounds of the model.                                                    *)
(***************************************************************************)
\* number of Chrome drivers that may be constructed in one behaviour
MaxDrivers == 2

\* number of handle_message calls in one behaviour, and how many of them
\* may end in an exception of the fetch
MaxCalls == 23
MaxErrors == 1

Procs == {"p1", "p2"}

\* tokens a caller supplies, and the tokens secrets.token_urlsafe may yield
Tokens == {"T1"}
GenTokens == {"G1"}
AllTokens == Tokens \cup GenTokens

\* session_token=None, and the empty string (both falsy in Python)
NoToken == "<None>"
EmptyToken == ""
TokenArgs == Tokens \cup {NoToken, EmptyToken}

(***************************************************************************)
(* Strings are sequences of one-character strings.                         *)
(***************************************************************************)
LiAt == <<"l", "i", "_", "a", "t", "=">>

\* the cookie "AQEtest123"
AQEtest123 == <<"A", "Q", "E", "t", "e", "s", "t", "1", "2", "3">>

\* the characters 0x0B and 0x1C..0x1F, which str.strip() removes like
\* space, \t, \n, \r and \f; each stands between the quotes as itself
VT == ""
FS == ""
GS == ""
RS == ""
US == ""

\* the characters U+0085, U+00A0 and U+1680, which str.strip() removes too.
\* It also removes U+2000..U+200A, U+2028, U+2029, U+202F, U+205F and
\* U+3000: no string of a module can hold one of these, so no cookie of the
\* model contains one
NEL == ""
NBSP == " "
OghamSpace == " "

\* the cookie strings callers pass: "AQEtest123", " li_at=B ", "  "
CookieInputs ==
    { <<"A", "Q", "E", "t", "e", "s", "t", "1", "2", "3">>,
      <<" ">> \o LiAt \o <<"B", " ">>,
      <<" ", " ">> }

\* more cookie strings: "li_at=", "li_at=li_at=B", "li_at= B", "\tB\n",
\* "Li_at=B", "B li_at=C", B between the characters 0x0B and 0x1F, the
\* characters 0x0B 0x1C alone, B between U+00A0 and U+0085, and U+1680 alone
EdgeCookieInputs ==
    CookieInputs \cup
    { LiAt,
      LiAt \o LiAt \o <<"B">>,
      LiAt \o <<" ", "B">>,
      <<"\t", "B", "\n">>,
      <<"L", "i", "_", "a", "t", "=", "B">>,
      <<"B", " ">> \o LiAt \o <<"C">>,
      <<VT, "B", US>>,
      <<VT, FS>>,
      <<NBSP, "B", NEL>>,
      <<OghamSpace>> }

\* the whitespace str.strip() removes
IsSpace(ch) ==
    ch \in {" ", "\t", "\n", "\r", "\f", VT, FS, GS, RS, US,
            NEL, NBSP, OghamSpace}

RECURSIVE LStrip(_)
LStrip(s) == IF s # <<>> /\ IsSpace(Head(s)) THEN LStrip(Tail(s)) ELSE s

RECURSIVE RStrip(_)
RStrip(s) ==
    IF s # <<>> /\ IsSpace(s[Len(s)]) THEN RStrip(SubSeq(s, 1, Len(s) - 1)) ELSE s

\* str.strip()
Strip(s) == RStrip(LStrip(s))

\* str.startswith(prefix)
StartsWith(s, prefix) ==
    Len(s) >= Len(prefix) /\ SubSeq(s, 1, Len(prefix)) = prefix

\* index of the first occurrence of sep in s, 0 when there is none (str.find + 1)
FindFirst(s, sep) ==
    LET hits == { i \in 1..(Len(s) - Len(sep) + 1) :
                    SubSeq(s, i, i + Len(sep) - 1) = sep }
    IN IF hits = {} THEN 0 ELSE CHOOSE i \in hits : \A j \in hits : i <= j

\* s.split(sep, 1)[1], for s that contains sep
SplitAfterFirst(s, sep) ==
    SubSeq(s, FindFirst(s, sep) + Len(sep), Len(s))

\* mutant: the prefix is added without looking for one
NormalizeCookieForStorage_AlwaysPrefix(cookie) ==
    LET normalized == Strip(cookie) IN
    IF normalized = <<>>
    THEN [ok |-> FALSE, stored |-> <<>>, raw |-> <<>>]
    ELSE [ok |-> TRUE, stored |-> LiAt \o normalized, raw |-> normalized]

\* mutant: a cookie that is empty after strip() is accepted
NormalizeCookieForStorage_AcceptsBlank(cookie) ==
    LET normalized == Strip(cookie) IN
    IF StartsWith(normalized, LiAt)
    THEN [ok |-> TRUE, stored |-> normalized,
          raw |-> SplitAfterFirst(normalized, LiAt)]
    ELSE [ok |-> TRUE, stored |-> LiAt \o normalized, raw |-> normalized]

\* _normalize_cookie_for_storage: [ok, stored, raw]; ok = FALSE is ValueError
NormalizeCookieForStorage(cookie) ==
    LET normalized == Strip(cookie) IN
    IF normalized = <<>>
    THEN [ok |-> FALSE, stored |-> <<>>, raw |-> <<>>]
    ELSE IF StartsWith(normalized, LiAt)
         THEN [ok |-> TRUE, stored |-> normalized,
               raw |-> SplitAfterFirst(normalized, LiAt)]
         ELSE [ok |-> TRUE, stored |-> LiAt \o normalized, raw |-> normalized]

\* mutant: the stored cookie is sent as it is
NormalizeCookieValue_Identity(cookie) == cookie

\* chrome._normalize_cookie_value
NormalizeCookieValue(cookie) ==
    IF StartsWith(cookie, LiAt) THEN SplitAfterFirst(cookie, LiAt) ELSE cookie

(***************************************************************************)
(* A Python dict: a sequence of [k, v] entries in insertion order.         *)
(***************************************************************************)
DictKeys(d) == { d[i].k : i \in 1..Len(d) }

DictKeyList(d) == [i \in 1..Len(d) |-> d[i].k]

DictHas(d, key) == key \in DictKeys(d)

DictGet(d, key) == (CHOOSE i \in 1..Len(d) : d[i].k = key) \* index
DictVal(d, key) == d[DictGet(d, key)].v

\* d[key] = val : overwrite in place, or append
DictSet(d, key, val) ==
    IF DictHas(d, key)
    THEN [i \in 1..Len(d) |-> IF d[i].k = key THEN [k |-> key, v |-> val] ELSE d[i]]
    ELSE Append(d, [k |-> key, v |-> val])

RECURSIVE DictDel(_, _)
DictDel(d, key) ==
    IF d = <<>> THEN <<>>
    ELSE IF Head(d).k = key THEN Tail(d)
         ELSE <<Head(d)>> \o DictDel(Tail(d), key)

(***************************************************************************)
(* The external login routine and the browser, as seen by chrome.py.       *)
(* A URL is the set of the markers the code looks for that it contains.    *)
(***************************************************************************)
UrlFeed == {"feed", "/feed/"}
UrlLogin == {"login"}
UrlUasLogin == {"login", "uas/login"}
UrlLoginToFeed == {"login", "feed", "/feed/"}
UrlChallenge == {"checkpoint/challenge"}
UrlBlank == {}
\* reading driver.current_url raises
UrlRaises == {"<raises>"}

\* outcome of one actions.login(driver, cookie=...) invocation:
\* returns, TimeoutException, InvalidCredentialsError, any other exception
LoginOutcomes == {"ok", "timeout", "invalid", "other"}

\* page-load timeouts set by the code
AuthPageLoadTimeout == 45
DefaultPageLoadTimeout == 60

\* max_retries of login_with_cookie
MaxRetries == 1

HasLoginMarker(url) == "login" \in url \/ "uas/login" \in url

HasAuthMarker(url) ==
    \E indicator \in {"feed", "mynetwork", "linkedin.com/in/", "/feed/"} :
        indicator \in url

\* mutant: the second reading is tested for an authenticated-area marker
\* before it is tested for a login marker
CheckUrl_AuthFirst(env) ==
    LET u1 == env.urls[1]
        u2 == env.urls[2]
    IN IF u1 = UrlRaises
       THEN [ok |-> FALSE, reads |-> 1, raised |-> "WebDriverException"]
       ELSE IF HasLoginMarker(u1) THEN [ok |-> FALSE, reads |-> 1, raised |-> "none"]
       ELSE IF HasAuthMarker(u1) THEN [ok |-> TRUE, reads |-> 1, raised |-> "none"]
       ELSE IF u2 = UrlRaises
       THEN [ok |-> FALSE, reads |-> 2, raised |-> "WebDriverException"]
       ELSE IF HasAuthMarker(u2) THEN [ok |-> TRUE, reads |-> 2, raised |-> "none"]
       ELSE [ok |-> FALSE, reads |-> 2, raised |-> "none"]

\* the URL check after the login loop, inside its try (chrome.py 272-310):
\* [ok, reads, raised]; raised is the exception a current_url read raises
CheckUrl(env) ==
    LET u1 == env.urls[1]
        u2 == env.urls[2]
    IN IF u1 = UrlRaises
       THEN [ok |-> FALSE, reads |-> 1, raised |-> "WebDriverException"]
       ELSE IF HasLoginMarker(u1) THEN [ok |-> FALSE, reads |-> 1, raised |-> "none"]
       ELSE IF HasAuthMarker(u1) THEN [ok |-> TRUE, reads |-> 1, raised |-> "none"]
       ELSE IF u2 = UrlRaises
       THEN [ok |-> FALSE, reads |-> 2, raised |-> "WebDriverException"]
       ELSE IF HasLoginMarker(u2) THEN [ok |-> FALSE, reads |-> 2, raised |-> "none"]
       ELSE IF HasAuthMarker(u2) THEN [ok |-> TRUE, reads |-> 2, raised |-> "none"]
       ELSE [ok |-> FALSE, reads |-> 2, raised |-> "none"]

\* the URL check with its except clause (chrome.py 271-314): an exception
\* of the check is logged and gives False
VerifyUrl(env) ==
    LET c == CheckUrl(env) IN
    IF c.raised # "none"
    THEN [ok |-> FALSE, reads |-> c.reads, raised |-> "none"]
    ELSE c

\* mutant: InvalidCredentialsError is retried like any other exception
RECURSIVE LoginLoop_InvalidRetries(_, _, _)
LoginLoop_InvalidRetries(env, retry_count, trace) ==
    IF retry_count > MaxRetries THEN [verify |-> TRUE, trace |-> trace]
    ELSE LET outcome == env.attempts[Len(trace) + 1]
             now == Append(trace, outcome)
         IN CASE outcome = "ok" -> [verify |-> TRUE, trace |-> now]
              [] outcome = "timeout" -> [verify |-> FALSE, trace |-> now]
              [] OTHER ->
                   IF retry_count < MaxRetries
                   THEN LoginLoop_InvalidRetries(env, retry_count + 1, now)
                   ELSE [verify |-> FALSE, trace |-> now]

\* mutant: an exception that is neither a timeout nor the invalid-credential
\* signal is not retried
RECURSIVE LoginLoop_NoRetry(_, _, _)
LoginLoop_NoRetry(env, retry_count, trace) ==
    IF retry_count > MaxRetries THEN [verify |-> TRUE, trace |-> trace]
    ELSE LET outcome == env.attempts[Len(trace) + 1]
             now == Append(trace, outcome)
         IN CASE outcome = "ok" -> [verify |-> TRUE, trace |-> now]
              [] outcome = "timeout" -> [verify |-> FALSE, trace |-> now]
              [] outcome = "invalid" -> [verify |-> TRUE, trace |-> now]
              [] OTHER -> [verify |-> FALSE, trace |-> now]

\* the while loop of login_with_cookie (chrome.py 235-268):
\* [verify, trace]; trace lists the outcomes of the actions.login invocations
\* made, verify = FALSE is "return False" from inside the loop.  Every
\* exception of actions.login is caught by one of the two except clauses.
RECURSIVE LoginLoop(_, _, _)
LoginLoop(env, retry_count, trace) ==
    IF retry_count > MaxRetries THEN [verify |-> TRUE, trace |-> trace]
    ELSE LET outcome == env.attempts[Len(trace) + 1]
             now == Append(trace, outcome)
         IN CASE outcome = "ok" -> [verify |-> TRUE, trace |-> now]
              [] outcome = "timeout" -> [verify |-> FALSE, trace |-> now]
              [] outcome = "invalid" -> [verify |-> TRUE, trace |-> now]
              [] OTHER ->
                   IF retry_count < MaxRetries
                   THEN LoginLoop(env, retry_count + 1, now)
                   ELSE [verify |-> FALSE, trace |-> now]

\* mutant: login_with_cookie without the finally clause (chrome.py 319-321)
LoginWithCookie_NoRestore(env) ==
    LET loop == LoginLoop(env, 0, <<>>)
        check == IF loop.verify THEN VerifyUrl(env)
                 ELSE [ok |-> FALSE, reads |-> 0, raised |-> "none"]
    IN [ok |-> check.ok /\ check.raised = "none", raised |-> "none",
        trace |-> loop.trace, reads |-> check.reads,
        during |-> AuthPageLoadTimeout, after |-> AuthPageLoadTimeout]

\* mutant: login_with_cookie without the except clauses around the URL
\* check (chrome.py 312-318)
LoginWithCookie_NoExcept(env) ==
    LET loop == LoginLoop(env, 0, <<>>)
        check == IF loop.verify THEN CheckUrl(env)
                 ELSE [ok |-> FALSE, reads |-> 0, raised |-> "none"]
    IN [ok |-> check.ok, raised |-> check.raised,
        trace |-> loop.trace, reads |-> check.reads,
        during |-> AuthPageLoadTimeout, after |-> DefaultPageLoadTimeout]

\* login_with_cookie: [ok, raised, trace, reads, during, after]
\* raised: the exception that leaves the function, "none" when it returns;
\* the outer except clause (chrome.py 316-318) turns what is left into False
\* during/after: the page-load timeout while logging in and on return
LoginWithCookie(env) ==
    LET loop == LoginLoop(env, 0, <<>>)
        check == IF loop.verify THEN VerifyUrl(env)
                 ELSE [ok |-> FALSE, reads |-> 0, raised |-> "none"]
    IN [ok |-> check.ok /\ check.raised = "none", raised |-> "none",
        trace |-> loop.trace, reads |-> check.reads,
        during |-> AuthPageLoadTimeout, after |-> DefaultPageLoadTimeout]

\* the try body of login_to_linkedin after a failed cookie login (350-364):
\* the exception it raises
ClassifyLoginFailure(env) ==
    IF env.url3 = UrlRaises THEN "WebDriverException"
    ELSE IF "checkpoint/challenge" \in env.url3
         THEN IF env.security THEN "SecurityChallengeError"
              ELSE "CaptchaRequiredError"
         ELSE "InvalidCredentialsError"

\* the except clause around that try body (366-368): whatever was raised
\* inside, the specific errors included, leaves as a LoginTimeoutError
\* whose message quotes the inner one
WrapLoginFailure(inner) == [kind |-> "LoginTimeoutError", inner |-> inner]

NoError == [kind |-> "ok", inner |-> "none"]

\* login_to_linkedin: [err, trace, after].  Between the failed cookie login
\* and the classification it calls clear_authentication() (lines 344-346),
\* which gets neither the token nor the driver and clears the process-wide
\* stored cookie: _sessions and active_drivers are not touched.
LoginToLinkedin(env) ==
    LET r == LoginWithCookie(env) IN
    [err |-> IF r.raised # "none" THEN [kind |-> r.raised, inner |-> "none"]
             ELSE IF r.ok THEN NoError
             ELSE WrapLoginFailure(ClassifyLoginFailure(env)),
     trace |-> r.trace, after |-> r.after]

MkEnv(a1, a2, u1, u2, u3, sec) ==
    [attempts |-> <<a1, a2>>, urls |-> <<u1, u2>>, url3 |-> u3, security |-> sec]

\* the login errors get_or_create_driver catches and re-raises (lines 407-414)
LoginErrors ==
    {"CaptchaRequiredError", "InvalidCredentialsError", "SecurityChallengeError",
     "TwoFactorAuthError", "RateLimitError", "LoginTimeoutError"}

\* no login was attempted
NoEnv == MkEnv("none", "none", UrlBlank, UrlBlank, UrlBlank, FALSE)

\* the locations a driver can report
Urls ==
    {UrlFeed, UrlLogin, UrlUasLogin, UrlLoginToFeed, UrlChallenge, UrlBlank,
     UrlRaises}

\* every environment of one login_with_cookie call
LoginEnvs ==
    { MkEnv(a1, a2, u1, u2, UrlBlank, FALSE) :
        a1 \in LoginOutcomes, a2 \in LoginOutcomes, u1 \in Urls, u2 \in Urls }

\* the environments a login can meet in the lifecycle model
AuthEnvs ==
    { MkEnv("ok", "ok", UrlFeed, UrlFeed, UrlFeed, FALSE),
      MkEnv("invalid", "ok", UrlFeed, UrlFeed, UrlFeed, FALSE),
      MkEnv("invalid", "ok", UrlLoginToFeed, UrlFeed, UrlFeed, FALSE),
      MkEnv("timeout", "ok", UrlBlank, UrlBlank, UrlBlank, FALSE),
      MkEnv("ok", "ok", UrlUasLogin, UrlUasLogin, UrlUasLogin, FALSE),
      MkEnv("ok", "ok", UrlChallenge, UrlChallenge, UrlChallenge, FALSE),
      MkEnv("ok", "ok", UrlChallenge, UrlChallenge, UrlChallenge, TRUE),
      MkEnv("other", "other", UrlBlank, UrlBlank, UrlBlank, FALSE),
      MkEnv("other", "ok", UrlBlank, UrlFeed, UrlFeed, FALSE) }

(***************************************************************************)
(* State.                                                                  *)
(*   sessions        _sessions : token -> stored cookie                    *)
(*   active_drivers  chrome.active_drivers : token -> driver               *)
(*   drv             every driver constructed so far; a driver is its      *)
(*                   index in drv                                          *)
(*   lock            the holder of _session_lock, or "none"                *)
(*   pc, loc         position and locals of each thread                    *)
(*   ret             what the call of a thread returns or raises, while    *)
(*                   the thread hands it to its caller (pc = "done")       *)
(***************************************************************************)
NoDriver == 0

\* the two maps as a call finds them
NoBefore == [sessions |-> <<>>, active_drivers |-> <<>>]

\* locals of a call, and what is remembered of its history:
\*   prev    the driver pooled for tok when the call began
\*   before  the maps when the call began (kept by close_all_sessions, and
\*           by create_or_update_session until the cookie is validated)
\*   env     what the login of this call met
\*   qerr    a driver.quit() of this call raised
\*   solo    close_session: no other call has taken a step since this call
\*           began
\*   targ    create_or_update_session: the session_token argument
\*   listed  list_sessions: the entries built so far
\*   pools   list_sessions: the key sets active_drivers has had since the
\*           call took the lock
LocInit ==
    [op |-> "none", tok |-> NoToken, cookie |-> <<>>, arg |-> <<>>,
     validated |-> FALSE, d |-> NoDriver, victim |-> NoDriver,
     removed |-> FALSE, count |-> 0, todo |-> <<>>, err |-> NoError,
     login |-> <<>>, prev |-> NoDriver, before |-> NoBefore, env |-> NoEnv,
     qerr |-> FALSE, solo |-> FALSE, targ |-> NoToken, listed |-> <<>>,
     pools |-> {}]

\* what a call returns or raises:
\*   kind   "ok" or the exception raised; inner: the error a LoginTimeoutError
\*          quotes
\*   drv    the driver returned; flag, count: the boolean or number returned
\*   arg    the cookie argument; made: the driver this call constructed
\*   login  the outcomes of the login routine's invocations in this call
\*   prev   the driver pooled for tok when the call began
\*   removed, before, env, qerr, solo: as in the locals
\*   status the "status" of the dict an MCP tool returns
\*   listed the list list_sessions returns
\*   targ   the session_token argument of create_or_update_session
\*   pools  as in the locals
RetInit ==
    [op |-> "none", tok |-> NoToken, kind |-> "none", inner |-> "none",
     drv |-> NoDriver, flag |-> FALSE, count |-> 0, arg |-> <<>>,
     made |-> NoDriver, login |-> <<>>, prev |-> NoDriver, removed |-> FALSE,
     before |-> NoBefore, env |-> NoEnv, qerr |-> FALSE, solo |-> FALSE,
     status |-> "none", listed |-> <<>>, targ |-> NoToken, pools |-> {}]

\* the result of a call with locals l that ends with kind
Result(l, kind) ==
    [op |-> l.op, tok |-> l.tok, kind |-> kind, inner |-> "none",
     drv |-> NoDriver, flag |-> FALSE, count |-> 0, arg |-> l.arg,
     made |-> l.d, login |-> l.login, prev |-> l.prev, removed |-> l.removed,
     before |-> l.before, env |-> l.env, qerr |-> l.qerr, solo |-> l.solo,
     status |-> IF l.op = "tool_close_all" /\ kind = "ok" THEN "success"
                ELSE "none",
     listed |-> l.listed, targ |-> l.targ, pools |-> l.pools]

\* active_drivers.get(session_id): get_active_driver (chrome.py 448-451)
GetActiveDriver(session_id) ==
    IF DictHas(active_drivers, session_id)
    THEN DictVal(active_drivers, session_id)
    ELSE NoDriver

\* the session tokens of the chat, and the kinds of message: one whose
\* branch awaits a fetch (agent.py 48-99), one answered at once (58-61,
\* 101-104), and one whose handling raises inside the try before any await
\* (line 56: _extract_job_search_query finds " for " or " about " in the
\* lowered text and splits the text as typed, IndexError at 133 or 135)
ChatTokens == {"T1", "T2"}
MessageKinds == {"fetch", "plain", "raises"}

\* len(history) > 40 in _record
HistoryLimit == 40

\* what the behaviour has seen of the chat so far:
\*   recorded  per token, the number of _record calls; the n-th entry
\*             recorded for a token has content n
\*   calls     the number of handle_message calls
\*   errors    the number of calls that ended in the except clause
ChatInit == [recorded |-> [t \in ChatTokens |-> 0], calls |-> 0, errors |-> 0]

\* self._history.get(session_token, [])
GetHistory(h, session_token) ==
    IF DictHas(h, session_token) THEN DictVal(h, session_token) ELSE <<>>

\* mutant: the oldest entries are kept (del history[40:])
Record_KeepsOldest(h, session_token, role, content) ==
    LET appended == Append(GetHistory(h, session_token),
                           [role |-> role, content |-> content])
    IN DictSet(h, session_token,
               IF Len(appended) > HistoryLimit
               THEN SubSeq(appended, 1, HistoryLimit)
               ELSE appended)

\* _record (agent.py 29-34): setdefault, append, and del history[:-40] when
\* the list has more than 40 entries; the dict after the call
Record(h, session_token, role, content) ==
    LET appended == Append(GetHistory(h, session_token),
                           [role |-> role, content |-> content])
    IN DictSet(h, session_token,
               IF Len(appended) > HistoryLimit
               THEN SubSeq(appended, Len(appended) - HistoryLimit + 1,
                           Len(appended))
               ELSE appended)

Init ==
    /\ sessions = <<>>
    /\ active_drivers = <<>>
    /\ drv = <<>>
    /\ lock = "none"
    /\ pc = [p \in Procs |-> "idle"]
    /\ loc = [p \in Procs |-> LocInit]
    /\ ret = [p \in Procs |-> RetInit]
    /\ history = <<>>
    /\ chat = ChatInit

\* no other thread is inside a call
Quiet(p) == \A q \in Procs \ {p} : pc[q] \in {"idle", "done"}

\* the locals of a call of op that thread p begins
Begin(p, op, tok) ==
    [LocInit EXCEPT !.op = op, !.tok = tok, !.solo = (op = "close" /\ Quiet(p))]

\* the locals after a step of thread p: l for p; the calls of the other
\* threads are no longer alone, and a list_sessions call among them has
\* been through one more state of active_drivers
Stepped(p, l) ==
    [q \in Procs |->
       IF q = p THEN l
       ELSE [loc[q] EXCEPT
               !.solo = FALSE,
               !.pools = IF pc[q] = "ls_read"
                         THEN @ \cup {DictKeys(active_drivers)} ELSE @]]

\* the results after a step of thread p: r for p; the results the other
\* threads hold are no longer of the last call that ran
Seen(p, r) ==
    [q \in Procs |-> IF q = p THEN r ELSE [ret[q] EXCEPT !.solo = FALSE]]

\* the call of thread p ends: r is what it returns or raises
Finish(p, r) ==
    /\ pc' = [pc EXCEPT ![p] = "done"]
    /\ loc' = Stepped(p, LocInit)
    /\ ret' = Seen(p, r)
    /\ UNCHANGED <<history, chat>>

\* thread p goes on to position next with locals l
Goto(p, next, l) ==
    /\ pc' = [pc EXCEPT ![p] = next]
    /\ loc' = Stepped(p, l)
    /\ ret' = Seen(p, ret[p])
    /\ UNCHANGED <<history, chat>>

\* the caller of thread p has the result; the thread is free for the next call
Return(p) ==
    /\ pc[p] = "done"
    /\ pc' = [pc EXCEPT ![p] = "idle"]
    /\ ret' = [ret EXCEPT ![p] = RetInit]
    /\ UNCHANGED <<sessions, active_drivers, drv, lock, loc, history, chat>>

\* tokens no map and no running call knows: what token_urlsafe(16) returns
FreshTokens ==
    { g \in GenTokens :
        /\ ~DictHas(sessions, g)
        /\ ~DictHas(active_drivers, g)
        /\ \A q \in Procs : loc[q].tok # g }

\* token = session_token or secrets.token_urlsafe(16)
TokenFor(session_token) ==
    IF session_token \in {NoToken, EmptyToken} THEN FreshTokens
    ELSE {session_token}

\* driver.quit() was called on driver d (whether or not the call raised)
Quit(d) == [drv EXCEPT ![d].state = "quit"]

(***************************************************************************)
(* create_or_update_session (session_manager.py 43-72)                     *)
(***************************************************************************)
\* lines 50-54, and line 63 when there is no validation: normalize, then go
\* to validation with the token argument, or pick the token and go to the lock
CreateCall(p, cookie, session_token, validate_cookie) ==
    /\ pc[p] = "idle"
    /\ LET n == NormalizeCookieForStorage(cookie) IN
       IF ~n.ok
       THEN /\ Finish(p, [RetInit EXCEPT
                              !.op = "create", !.kind = "ValueError",
                              !.arg = cookie, !.tok = session_token,
                              !.targ = session_token,
                              !.prev = GetActiveDriver(session_token),
                              !.before = [sessions |-> sessions,
                                          active_drivers |-> active_drivers]])
            /\ UNCHANGED <<sessions, active_drivers, drv, lock>>
       ELSE /\ TokenFor(session_token) # {}
            /\ IF validate_cookie
               THEN Goto(p, "cu_validate",
                         [Begin(p, "create", session_token) EXCEPT
                            !.cookie = n.stored, !.arg = cookie,
                            !.targ = session_token,
                            !.prev = GetActiveDriver(session_token),
                            !.before = [sessions |-> sessions,
                                        active_drivers |-> active_drivers]])
               ELSE \E token \in TokenFor(session_token) :
                      Goto(p, "cu_lock",
                           [Begin(p, "create", token) EXCEPT
                              !.cookie = n.stored, !.arg = cookie,
                              !.targ = session_token,
                              !.prev = GetActiveDriver(token)])
            /\ UNCHANGED <<sessions, active_drivers, drv, lock>>

\* test_cookie_validity(cookie): the probe logs in on a temporary driver that
\* is never pooled and is torn down whatever the outcome; it returns whether
\* the cookie is valid and touches neither map
TestCookieValidity == BOOLEAN

\* mutant: a cookie that fails the probe also removes the record of the token
CreateValidate_DropsRecord(p) ==
    /\ pc[p] = "cu_validate"
    /\ \E valid \in TestCookieValidity :
         IF valid
         THEN /\ \E token \in TokenFor(loc[p].tok) :
                   Goto(p, "cu_lock", [loc[p] EXCEPT !.validated = TRUE,
                                                    !.tok = token,
                                                    !.before = NoBefore])
              /\ UNCHANGED sessions
         ELSE /\ Finish(p, Result(loc[p], "InvalidCredentialsError"))
              /\ sessions' = DictDel(sessions, loc[p].tok)
    /\ UNCHANGED <<active_drivers, drv, lock>>

\* lines 54-61 and 63: test_cookie_validity(raw_cookie), a probe on a
\* temporary driver; InvalidCredentialsError, or pick the token
CreateValidate(p) ==
    /\ pc[p] = "cu_validate"
    /\ \E valid \in TestCookieValidity :
         IF valid
         THEN \E token \in TokenFor(loc[p].tok) :
                Goto(p, "cu_lock", [loc[p] EXCEPT !.validated = TRUE,
                                                 !.tok = token,
                                                 !.before = NoBefore])
         ELSE Finish(p, Result(loc[p], "InvalidCredentialsError"))
    /\ UNCHANGED <<sessions, active_drivers, drv, lock>>

\* mutant: the lock is taken but close_driver(token) is skipped
CreateLock_NoEvict(p) ==
    /\ pc[p] = "cu_lock"
    /\ lock = "none"
    /\ lock' = p
    /\ Goto(p, "cu_store", loc[p])
    /\ UNCHANGED <<sessions, active_drivers, drv>>

\* lines 67-69: with _session_lock, then close_driver(token)
CreateLock(p) ==
    /\ pc[p] = "cu_lock"
    /\ lock = "none"
    /\ lock' = p
    /\ Goto(p, "cd_pop", loc[p])
    /\ UNCHANGED <<sessions, active_drivers, drv>>

\* line 70 and the end of the with block: store the cookie, release the lock
CreateStore(p) ==
    /\ pc[p] = "cu_store"
    /\ sessions' = DictSet(sessions, loc[p].tok, loc[p].cookie)
    /\ lock' = "none"
    /\ Finish(p, [Result(loc[p], "ok") EXCEPT !.flag = loc[p].validated])
    /\ UNCHANGED <<active_drivers, drv>>

(***************************************************************************)
(* close_driver (chrome.py 422-435), called by create_or_update_session,   *)
(* close_session and close_all_drivers                                     *)
(***************************************************************************)
\* mutant: close_session returns True whatever it found
AfterCloseDriver_AlwaysTrue(p, l, driver_closed) ==
    CASE l.op = "create" -> Goto(p, "cu_store", l)
      [] l.op = "close" -> Finish(p, [Result(l, "ok") EXCEPT !.flag = TRUE])
      [] OTHER -> Goto(p, "ca_loop", l)

\* where close_driver returns to, with its result
AfterCloseDriver(p, l, driver_closed) ==
    CASE l.op = "create" -> Goto(p, "cu_store", l)
      [] l.op = "close" ->
            Finish(p, [Result(l, "ok") EXCEPT !.flag = l.removed \/ driver_closed])
      [] OTHER -> Goto(p, "ca_loop", l)

\* mutant: close_driver empties the pool instead of popping one entry
CloseDriverPop_ClearsPool(p) ==
    /\ pc[p] = "cd_pop"
    /\ IF DictHas(active_drivers, loc[p].tok)
       THEN /\ active_drivers' = <<>>
            /\ Goto(p, "cd_quit",
                    [loc[p] EXCEPT !.victim = DictVal(active_drivers, loc[p].tok)])
       ELSE /\ AfterCloseDriver(p, loc[p], FALSE)
            /\ UNCHANGED active_drivers
    /\ UNCHANGED <<sessions, drv, lock>>

\* lines 425-427: driver = active_drivers.pop(session_id, None)
CloseDriverPop(p) ==
    /\ pc[p] = "cd_pop"
    /\ IF DictHas(active_drivers, loc[p].tok)
       THEN /\ active_drivers' = DictDel(active_drivers, loc[p].tok)
            /\ Goto(p, "cd_quit",
                    [loc[p] EXCEPT !.victim = DictVal(active_drivers, loc[p].tok)])
       ELSE /\ AfterCloseDriver(p, loc[p], FALSE)
            /\ UNCHANGED active_drivers
    /\ UNCHANGED <<sessions, drv, lock>>

\* mutant: an error of driver.quit() is not caught
CloseDriverQuit_Propagates(p) ==
    /\ pc[p] = "cd_quit"
    /\ \E raises \in BOOLEAN :
         /\ drv' = Quit(loc[p].victim)
         /\ IF raises
            THEN /\ Finish(p, Result([loc[p] EXCEPT !.qerr = TRUE],
                                     "WebDriverException"))
                 /\ lock' = IF lock = p THEN "none" ELSE lock
            ELSE /\ AfterCloseDriver(p, [loc[p] EXCEPT !.victim = NoDriver], TRUE)
                 /\ UNCHANGED lock
    /\ UNCHANGED <<sessions, active_drivers>>

\* lines 429-435: driver.quit(); an error is logged and gives False
CloseDriverQuit(p) ==
    /\ pc[p] = "cd_quit"
    /\ \E raises \in BOOLEAN :
         /\ drv' = Quit(loc[p].victim)
         /\ AfterCloseDriver(p, [loc[p] EXCEPT !.victim = NoDriver,
                                               !.qerr = @ \/ raises],
                             ~raises)
    /\ UNCHANGED <<sessions, active_drivers, lock>>

(***************************************************************************)
(* resolve_driver(T): get_session_cookie(T) (session_manager.py 89-98),    *)
(* then get_or_create_driver(cookie, T) (chrome.py 371-419)                *)
(***************************************************************************)
\* _sessions.get(session_token).cookie, for a token that has a record
GetSessionCookie(session_token) == DictVal(sessions, session_token)

\* get_session_cookie: the lock is taken, the map read, the lock released
ResolveCall(p, session_token) ==
    /\ pc[p] = "idle"
    /\ lock = "none"
    /\ IF DictHas(sessions, session_token)
       THEN Goto(p, "gc_check",
                 [Begin(p, "resolve", session_token) EXCEPT
                                 !.cookie = GetSessionCookie(session_token),
                                 !.prev = GetActiveDriver(session_token)])
       ELSE Finish(p, [RetInit EXCEPT !.op = "resolve", !.tok = session_token,
                                      !.kind = "CredentialsNotFoundError"])
    /\ UNCHANGED <<sessions, active_drivers, drv, lock>>

\* mutant: the pooled driver is never reused
GetOrCreateCheck_AlwaysNew(p) ==
    /\ pc[p] = "gc_check"
    /\ Goto(p, "gc_create", loc[p])
    /\ UNCHANGED <<sessions, active_drivers, drv, lock>>

\* line 386: if session_id in active_drivers
GetOrCreateCheck(p) ==
    /\ pc[p] = "gc_check"
    /\ IF DictHas(active_drivers, loc[p].tok)
       THEN Goto(p, "gc_reuse", loc[p])
       ELSE Goto(p, "gc_create", loc[p])
    /\ UNCHANGED <<sessions, active_drivers, drv, lock>>

\* line 388: return active_drivers[session_id], outside the try block
\* (KeyError if the entry was removed since line 386)
GetOrCreateReuse(p) ==
    /\ pc[p] = "gc_reuse"
    /\ IF DictHas(active_drivers, loc[p].tok)
       THEN Finish(p, [Result(loc[p], "ok") EXCEPT
                         !.drv = DictVal(active_drivers, loc[p].tok)])
       ELSE Finish(p, Result(loc[p], "KeyError"))
    /\ UNCHANGED <<sessions, active_drivers, drv, lock>>

\* mutant: without the except clause of lines 403-406
GetOrCreateConstruct_RaisesRaw(p) ==
    /\ pc[p] = "gc_create"
    /\ \/ /\ Len(drv) < MaxDrivers
          /\ drv' = Append(drv, [tok |-> loc[p].tok, cookie |-> loc[p].cookie,
                                 sent |-> <<>>, auth |-> "pending",
                                 state |-> "live",
                                 plt |-> DefaultPageLoadTimeout])
          /\ Goto(p, "gc_login",
                  [loc[p] EXCEPT !.d = Len(drv) + 1])
       \/ /\ Finish(p, Result(loc[p], "WebDriverException"))
          /\ UNCHANGED drv
    /\ UNCHANGED <<sessions, active_drivers, lock>>

\* lines 392, 403-406: create_chrome_driver(), or WebDriverException turned
\* into DriverInitializationError
GetOrCreateConstruct(p) ==
    /\ pc[p] = "gc_create"
    /\ \/ /\ Len(drv) < MaxDrivers
          /\ drv' = Append(drv, [tok |-> loc[p].tok, cookie |-> loc[p].cookie,
                                 sent |-> <<>>, auth |-> "pending",
                                 state |-> "live",
                                 plt |-> DefaultPageLoadTimeout])
          /\ Goto(p, "gc_login",
                  [loc[p] EXCEPT !.d = Len(drv) + 1])
       \/ /\ Finish(p, Result(loc[p], "DriverInitializationError"))
          /\ UNCHANGED drv
    /\ UNCHANGED <<sessions, active_drivers, lock>>

\* mutant: the driver is registered whatever the login gave
GetOrCreateLogin_AlwaysStore(p) ==
    /\ pc[p] = "gc_login"
    /\ \E env \in AuthEnvs :
         LET r == LoginToLinkedin(env)
             d == loc[p].d
         IN /\ drv' = [drv EXCEPT
                         ![d].sent = NormalizeCookieValue(loc[p].cookie),
                         ![d].auth = IF r.err.kind = "ok" THEN "ok" ELSE "failed",
                         ![d].plt = r.after]
            /\ Goto(p, "gc_store",
                    [loc[p] EXCEPT !.err = r.err, !.login = r.trace,
                                   !.env = env])
    /\ UNCHANGED <<sessions, active_drivers, lock>>

\* line 395: login_to_linkedin(driver, authentication); lines 403-414: a
\* WebDriverException becomes DriverInitializationError, a login error goes
\* to the clean-up
GetOrCreateLogin(p) ==
    /\ pc[p] = "gc_login"
    /\ \E env \in AuthEnvs :
         LET r == LoginToLinkedin(env)
             d == loc[p].d
         IN /\ drv' = [drv EXCEPT
                         ![d].sent = NormalizeCookieValue(loc[p].cookie),
                         ![d].auth = IF r.err.kind = "ok" THEN "ok" ELSE "failed",
                         ![d].plt = r.after]
            /\ LET l == [loc[p] EXCEPT !.err = r.err, !.login = r.trace,
                                       !.env = env]
               IN IF r.err.kind = "ok" THEN Goto(p, "gc_store", l)
                  ELSE IF r.err.kind \in LoginErrors THEN Goto(p, "gc_except", l)
                  ELSE Finish(p, Result(l, "DriverInitializationError"))
    /\ UNCHANGED <<sessions, active_drivers, lock>>

\* lines 398-401: register the driver and return it
GetOrCreateStore(p) ==
    /\ pc[p] = "gc_store"
    /\ active_drivers' = DictSet(active_drivers, loc[p].tok, loc[p].d)
    /\ Finish(p, [Result(loc[p], "ok") EXCEPT !.drv = loc[p].d])
    /\ UNCHANGED <<sessions, drv, lock>>

\* the login error as it leaves get_or_create_driver (line 419)
Raised(l) == [Result(l, l.err.kind) EXCEPT !.inner = l.err.inner]

\* line 416: if session_id in active_drivers
GetOrCreateExcept(p) ==
    /\ pc[p] = "gc_except"
    /\ IF DictHas(active_drivers, loc[p].tok)
       THEN Goto(p, "gc_exc_get", loc[p])
       ELSE Finish(p, Raised(loc[p]))
    /\ UNCHANGED <<sessions, active_drivers, drv, lock>>

\* line 417: active_drivers[session_id] (KeyError if it was removed meanwhile)
GetOrCreateExceptLookup(p) ==
    /\ pc[p] = "gc_exc_get"
    /\ IF DictHas(active_drivers, loc[p].tok)
       THEN Goto(p, "gc_exc_quit",
                 [loc[p] EXCEPT !.victim = DictVal(active_drivers, loc[p].tok)])
       ELSE Finish(p, Result(loc[p], "KeyError"))
    /\ UNCHANGED <<sessions, active_drivers, drv, lock>>

\* line 417: .quit(); an error of quit leaves the handler instead of e
GetOrCreateExceptQuit(p) ==
    /\ pc[p] = "gc_exc_quit"
    /\ \E raises \in BOOLEAN :
         /\ drv' = Quit(loc[p].victim)
         /\ IF raises
            THEN Finish(p, Result(loc[p], "WebDriverException"))
            ELSE Goto(p, "gc_exc_del", loc[p])
    /\ UNCHANGED <<sessions, active_drivers, lock>>

\* lines 418-419: del active_drivers[session_id]; raise e
GetOrCreateExceptDel(p) ==
    /\ pc[p] = "gc_exc_del"
    /\ IF DictHas(active_drivers, loc[p].tok)
       THEN /\ active_drivers' = DictDel(active_drivers, loc[p].tok)
            /\ Finish(p, Raised(loc[p]))
       ELSE /\ Finish(p, Result(loc[p], "KeyError"))
            /\ UNCHANGED active_drivers
    /\ UNCHANGED <<sessions, drv, lock>>

(***************************************************************************)
(* close_session (session_manager.py 101-110)                              *)
(***************************************************************************)
\* mutant: the record is looked up but not removed
CloseSessionCall_KeepRecord(p, session_token) ==
    /\ pc[p] = "idle"
    /\ lock = "none"
    /\ Goto(p, "cd_pop",
            [Begin(p, "close", session_token) EXCEPT
                            !.removed = DictHas(sessions, session_token),
                            !.prev = GetActiveDriver(session_token)])
    /\ UNCHANGED <<sessions, active_drivers, drv, lock>>

\* lines 106-107: removed = _sessions.pop(session_token, None), under the lock
CloseSessionCall(p, session_token) ==
    /\ pc[p] = "idle"
    /\ lock = "none"
    /\ sessions' = DictDel(sessions, session_token)
    /\ Goto(p, "cd_pop",
            [Begin(p, "close", session_token) EXCEPT
                            !.removed = DictHas(sessions, session_token),
                            !.prev = GetActiveDriver(session_token)])
    /\ UNCHANGED <<active_drivers, drv, lock>>

(***************************************************************************)
(* close_all_sessions (session_manager.py 113-123) and close_all_drivers   *)
(* (chrome.py 438-445)                                                     *)
(***************************************************************************)
\* mutant: the pooled drivers are counted instead of the records
CloseAllCall_CountDrivers(p) ==
    /\ pc[p] = "idle"
    /\ lock = "none"
    /\ sessions' = <<>>
    /\ Goto(p, "ca_snapshot",
            [Begin(p, "close_all", NoToken) EXCEPT
               !.count = Len(active_drivers),
               !.before = [sessions |-> sessions,
                           active_drivers |-> active_drivers]])
    /\ UNCHANGED <<active_drivers, drv, lock>>

\* lines 118-120: count = len(_sessions); _sessions.clear(), under the lock
CloseAllCall(p) ==
    /\ pc[p] = "idle"
    /\ lock = "none"
    /\ sessions' = <<>>
    /\ Goto(p, "ca_snapshot",
            [Begin(p, "close_all", NoToken) EXCEPT
               !.count = Len(sessions),
               !.before = [sessions |-> sessions,
                           active_drivers |-> active_drivers]])
    /\ UNCHANGED <<active_drivers, drv, lock>>

\* line 441: session_ids = list(active_drivers.keys())
CloseAllSnapshot(p) ==
    /\ pc[p] = "ca_snapshot"
    /\ Goto(p, "ca_loop", [loc[p] EXCEPT !.todo = DictKeyList(active_drivers)])
    /\ UNCHANGED <<sessions, active_drivers, drv, lock>>

\* mutant: the loop ends at the first driver whose quit raised
CloseAllLoop_StopsOnError(p) ==
    /\ pc[p] = "ca_loop"
    /\ IF loc[p].todo = <<>> \/ loc[p].qerr
       THEN Finish(p, [Result(loc[p], "ok") EXCEPT !.tok = NoToken,
                                                   !.count = loc[p].count])
       ELSE Goto(p, "cd_pop", [loc[p] EXCEPT !.tok = Head(loc[p].todo),
                                             !.todo = Tail(loc[p].todo)])
    /\ UNCHANGED <<sessions, active_drivers, drv, lock>>

\* lines 442-443 and 123: the next close_driver(session_id), or return count
CloseAllLoop(p) ==
    /\ pc[p] = "ca_loop"
    /\ IF loc[p].todo = <<>>
       THEN Finish(p, [Result(loc[p], "ok") EXCEPT !.tok = NoToken,
                                                   !.count = loc[p].count])
       ELSE Goto(p, "cd_pop", [loc[p] EXCEPT !.tok = Head(loc[p].todo),
                                             !.todo = Tail(loc[p].todo)])
    /\ UNCHANGED <<sessions, active_drivers, drv, lock>>

(***************************************************************************)
(* list_sessions (session_manager.py 126-138)                              *)
(***************************************************************************)
\* lines 131 and 137: with _session_lock, then the iteration over
\* _sessions.keys() begins; the map cannot change while the lock is held
ListSessions(p) ==
    /\ pc[p] = "idle"
    /\ lock = "none"
    /\ lock' = p
    /\ Goto(p, "ls_read",
            [Begin(p, "list", NoToken) EXCEPT
               !.todo = DictKeyList(sessions),
               !.before = [sessions |-> sessions,
                           active_drivers |-> active_drivers]])
    /\ UNCHANGED <<sessions, active_drivers, drv>>

\* lines 132-138: the entry of the next token, has_driver from
\* get_active_driver(token) (one read of active_drivers, which
\* _session_lock does not guard); after the last token the list is returned
\* and the lock released
ListSessionsRead(p) ==
    /\ pc[p] = "ls_read"
    /\ LET l == [loc[p] EXCEPT !.pools = @ \cup {DictKeys(active_drivers)}]
       IN IF l.todo = <<>>
          THEN /\ Finish(p, Result(l, "ok"))
               /\ lock' = "none"
          ELSE /\ Goto(p, "ls_read",
                       [l EXCEPT
                          !.todo = Tail(@),
                          !.listed = Append(@,
                             [session_token |-> Head(l.todo),
                              has_driver |->
                                GetActiveDriver(Head(l.todo)) # NoDriver])])
               /\ UNCHANGED lock
    /\ UNCHANGED <<sessions, active_drivers, drv>>

(***************************************************************************)
(* get_session_cookie, close_session, close_all_sessions and list_sessions *)
(* with the request, the acquisition and the release of _session_lock as   *)
(* steps of their own (session_manager.py 89-138)                          *)
(***************************************************************************)
LockedOps == {"cookie", "close", "close_all", "list"}

\* the call reaches `with _session_lock:` (lines 92, 106, 118, 131)
SessionLockRequest(p, op, session_token) ==
    /\ pc[p] = "idle"
    /\ Goto(p, "sm_lock", Begin(p, op, session_token))
    /\ UNCHANGED <<sessions, active_drivers, drv, lock>>

\* _session_lock.acquire(): blocks while a thread holds the lock
SessionLockAcquire(p) ==
    /\ pc[p] = "sm_lock"
    /\ lock = "none"
    /\ lock' = p
    /\ Goto(p, "sm_body", loc[p])
    /\ UNCHANGED <<sessions, active_drivers, drv>>

\* mutant: the lock stays held when the block is left by an exception
SessionLockedBody_LeaksOnRaise(p) ==
    /\ pc[p] = "sm_body"
    /\ CASE loc[p].op = "cookie" ->
              /\ IF DictHas(sessions, loc[p].tok)
                 THEN Finish(p, Result(loc[p], "ok")) /\ lock' = "none"
                 ELSE /\ Finish(p, Result(loc[p], "CredentialsNotFoundError"))
                      /\ UNCHANGED lock
              /\ UNCHANGED sessions
         [] loc[p].op = "close" ->
              /\ sessions' = DictDel(sessions, loc[p].tok)
              /\ lock' = "none"
              /\ Goto(p, "cd_pop",
                      [loc[p] EXCEPT !.removed = DictHas(sessions, loc[p].tok),
                                     !.prev = GetActiveDriver(loc[p].tok)])
         [] loc[p].op = "close_all" ->
              /\ sessions' = <<>>
              /\ lock' = "none"
              /\ Goto(p, "ca_snapshot",
                      [loc[p] EXCEPT
                         !.count = Len(sessions),
                         !.before = [sessions |-> sessions,
                                     active_drivers |-> active_drivers]])
         [] OTHER ->
              /\ Goto(p, "ls_read",
                      [loc[p] EXCEPT
                         !.todo = DictKeyList(sessions),
                         !.before = [sessions |-> sessions,
                                     active_drivers |-> active_drivers]])
              /\ UNCHANGED <<sessions, lock>>
    /\ UNCHANGED <<active_drivers, drv>>

\* the body of the with block, and its exit, which releases the lock
\* whether the block returns, falls through or raises:
\*   cookie     lines 93-98: the cookie, or CredentialsNotFoundError
\*   close      line 107: _sessions.pop; close_driver follows unlocked
\*   close_all  lines 119-120: count and clear; close_all_drivers follows
\*   list       line 137: the iteration over _sessions.keys() begins; the
\*              entries are read, and the lock released, by ListSessionsRead
SessionLockedBody(p) ==
    /\ pc[p] = "sm_body"
    /\ lock' = IF loc[p].op = "list" THEN p ELSE "none"
    /\ CASE loc[p].op = "cookie" ->
              /\ Finish(p, Result(loc[p],
                                  IF DictHas(sessions, loc[p].tok) THEN "ok"
                                  ELSE "CredentialsNotFoundError"))
              /\ UNCHANGED sessions
         [] loc[p].op = "close" ->
              /\ sessions' = DictDel(sessions, loc[p].tok)
              /\ Goto(p, "cd_pop",
                      [loc[p] EXCEPT !.removed = DictHas(sessions, loc[p].tok),
                                     !.prev = GetActiveDriver(loc[p].tok)])
         [] loc[p].op = "close_all" ->
              /\ sessions' = <<>>
              /\ Goto(p, "ca_snapshot",
                      [loc[p] EXCEPT
                         !.count = Len(sessions),
                         !.before = [sessions |-> sessions,
                                     active_drivers |-> active_drivers]])
         [] OTHER ->
              /\ Goto(p, "ls_read",
                      [loc[p] EXCEPT
                         !.todo = DictKeyList(sessions),
                         !.before = [sessions |-> sessions,
                                     active_drivers |-> active_drivers]])
              /\ UNCHANGED sessions
    /\ UNCHANGED <<active_drivers, drv>>

(***************************************************************************)
(* The MCP tool close_session (tools/session.py 66-91)                     *)
(***************************************************************************)
\* what the name close_session on line 74 is bound to.  The def on line 67
\* makes close_session a local of register_session_tools, so inside the tool
\* the name is the result of @mcp.tool() applied to the tool itself, not the
\* function imported on line 13: the coroutine function (the decorator
\* returns its argument) or a tool object that cannot be called (the
\* decorator returns the registered tool), depending on the fastmcp build.
ToolBindings == {"coroutine function", "tool object"}

\* handle_tool_error(e, name): the error payload of a tool
HandleToolError == "error"

\* lines 73-83: with a truthy token, closed = close_session(session_token)
\* calls the tool itself: the coroutine it returns is truthy and never awaited
\* ("success"), or the call raises TypeError, which line 90 catches.  The
\* session manager is not called, nothing changes.
\* lines 85-89: without token, close_all_sessions()
ToolCloseSession(p, session_token) ==
    /\ pc[p] = "idle"
    /\ IF session_token \notin {NoToken, EmptyToken}
       THEN /\ \E binding \in ToolBindings :
                 Finish(p, [RetInit EXCEPT
                              !.op = "tool_close", !.tok = session_token,
                              !.kind = "ok",
                              !.removed = DictHas(sessions, session_token),
                              !.prev = GetActiveDriver(session_token),
                              !.status = IF binding = "coroutine function"
                                         THEN "success" ELSE HandleToolError])
            /\ UNCHANGED <<sessions, active_drivers, drv, lock>>
       ELSE /\ lock = "none"
            /\ sessions' = <<>>
            /\ Goto(p, "ca_snapshot",
                    [Begin(p, "tool_close_all", NoToken) EXCEPT
                       !.count = Len(sessions),
                       !.before = [sessions |-> sessions,
                                   active_drivers |-> active_drivers]])
            /\ UNCHANGED <<active_drivers, drv, lock>>

(***************************************************************************)
(* create_chrome_driver and login_with_cookie called on their own          *)
(* (chrome.py 161-195, 206-321)                                            *)
(***************************************************************************)
\* create_chrome_driver(): a driver with the default page-load timeout
CreateChromeDriver(p) ==
    /\ pc[p] = "idle"
    /\ Len(drv) < MaxDrivers
    /\ drv' = Append(drv, [tok |-> NoToken, cookie |-> <<>>, sent |-> <<>>,
                           auth |-> "pending", state |-> "live",
                           plt |-> DefaultPageLoadTimeout])
    /\ Finish(p, [RetInit EXCEPT !.op = "driver", !.kind = "ok",
                                 !.drv = Len(drv) + 1, !.made = Len(drv) + 1])
    /\ UNCHANGED <<sessions, active_drivers, lock>>

\* login_with_cookie(driver, cookie) on driver d where the login meets env
LoginCall(p, d, cookie, env) ==
    /\ pc[p] = "idle"
    /\ d \in 1..Len(drv) /\ drv[d].state = "live"
    /\ LET r == LoginWithCookie(env) IN
         /\ drv' = [drv EXCEPT ![d].cookie = cookie,
                               ![d].sent = NormalizeCookieValue(cookie),
                               ![d].auth = IF r.raised = "none" /\ r.ok
                                           THEN "ok" ELSE "failed",
                               ![d].plt = r.after]
         /\ Finish(p, [RetInit EXCEPT
                         !.op = "login", !.drv = d, !.arg = cookie,
                         !.kind = IF r.raised = "none" THEN "ok" ELSE r.raised,
                         !.flag = r.ok, !.login = r.trace, !.count = r.reads,
                         !.env = env])
    /\ UNCHANGED <<sessions, active_drivers, lock>>

(***************************************************************************)
(* SimpleLinkedInAgent.handle_message (web/agent.py 41-127)                *)
(***************************************************************************)
\* lines 44-111: the message is recorded as "user"; a plain message is
\* answered at once by _success, which records the reply as "assistant";
\* a message whose handling raises before any await gets the error payload
\* of lines 105-111 at once, with nothing more recorded; a message of a
\* fetch branch awaits asyncio.to_thread
HandleMessage(p, session_token, kind) ==
    /\ pc[p] = "idle"
    /\ chat.calls < MaxCalls
    /\ LET n == chat.recorded[session_token]
           asked == Record(history, session_token, "user", n + 1)
           answered == Record(asked, session_token, "assistant", n + 2)
       IN IF kind = "plain"
          THEN /\ history' = answered
               /\ chat' = [chat EXCEPT !.recorded[session_token] = n + 2,
                                       !.calls = @ + 1]
               /\ pc' = [pc EXCEPT ![p] = "done"]
               /\ loc' = Stepped(p, LocInit)
               /\ ret' = Seen(p, [RetInit EXCEPT
                                    !.op = "chat", !.tok = session_token,
                                    !.kind = "ok", !.status = "success",
                                    !.count = Len(GetHistory(answered,
                                                             session_token))])
          ELSE IF kind = "raises"
          THEN /\ chat.errors < MaxErrors
               /\ history' = asked
               /\ chat' = [chat EXCEPT !.recorded[session_token] = n + 1,
                                       !.calls = @ + 1, !.errors = @ + 1]
               /\ pc' = [pc EXCEPT ![p] = "done"]
               /\ loc' = Stepped(p, LocInit)
               /\ ret' = Seen(p, [RetInit EXCEPT
                                    !.op = "chat", !.tok = session_token,
                                    !.kind = "ok", !.status = "error"])
          ELSE /\ history' = asked
               /\ chat' = [chat EXCEPT !.recorded[session_token] = n + 1,
                                       !.calls = @ + 1]
               /\ pc' = [pc EXCEPT ![p] = "hm_fetch"]
               /\ loc' = Stepped(p, Begin(p, "chat", session_token))
               /\ ret' = Seen(p, ret[p])
    /\ UNCHANGED <<sessions, active_drivers, drv, lock>>

\* the fetch returns and _success records the reply (lines 53, 68, 79, 90,
\* 99, 113-127), or it raises and the handler of lines 105-111 returns the
\* error payload without recording anything
HandleMessageFetched(p) ==
    /\ pc[p] = "hm_fetch"
    /\ \E raises \in BOOLEAN :
         LET session_token == loc[p].tok
             n == chat.recorded[session_token]
             answered == Record(history, session_token, "assistant", n + 1)
         IN IF raises
            THEN /\ chat.errors < MaxErrors
                 /\ chat' = [chat EXCEPT !.errors = @ + 1]
                 /\ ret' = Seen(p, [Result(loc[p], "ok") EXCEPT
                                      !.status = "error"])
                 /\ UNCHANGED history
            ELSE /\ history' = answered
                 /\ chat' = [chat EXCEPT !.recorded[session_token] = n + 1]
                 /\ ret' = Seen(p, [Result(loc[p], "ok") EXCEPT
                                      !.status = "success",
                                      !.count = Len(GetHistory(answered,
                                                               session_token))])
    /\ pc' = [pc EXCEPT ![p] = "done"]
    /\ loc' = Stepped(p, LocInit)
    /\ UNCHANGED <<sessions, active_drivers, drv, lock>>

(***************************************************************************)
(* The system.                                                             *)
(***************************************************************************)
\* threads run concurrently, all on caller-supplied tokens
Next ==
    \/ \E p \in Procs, c \in CookieInputs, t \in Tokens, v \in BOOLEAN :
         CreateCall(p, c, t, v)
    \/ \E p \in Procs : CreateValidate(p)
    \/ \E p \in Procs : CreateLock(p)
    \/ \E p \in Procs : CreateStore(p)
    \/ \E p \in Procs : CloseDriverPop(p)
    \/ \E p \in Procs : CloseDriverQuit(p)
    \/ \E p \in Procs, t \in Tokens : ResolveCall(p, t)
    \/ \E p \in Procs : GetOrCreateCheck(p)
    \/ \E p \in Procs : GetOrCreateReuse(p)
    \/ \E p \in Procs : GetOrCreateConstruct(p)
    \/ \E p \in Procs : GetOrCreateLogin(p)
    \/ \E p \in Procs : GetOrCreateStore(p)
    \/ \E p \in Procs : GetOrCreateExcept(p)
    \/ \E p \in Procs : GetOrCreateExceptLookup(p)
    \/ \E p \in Procs : GetOrCreateExceptQuit(p)
    \/ \E p \in Procs : GetOrCreateExceptDel(p)
    \/ \E p \in Procs, t \in Tokens : CloseSessionCall(p, t)
    \/ \E p \in Procs : CloseAllCall(p)
    \/ \E p \in Procs : CloseAllSnapshot(p)
    \/ \E p \in Procs : CloseAllLoop(p)
    \/ \E p \in Procs : Return(p)

Spec == Init /\ [][Next]_vars

\* threads run concurrently on one token with one cookie, unvalidated:
\* every interleaving of the steps that read or write the two maps
NextRace ==
    \/ \E p \in Procs, t \in Tokens : CreateCall(p, AQEtest123, t, FALSE)
    \/ \E p \in Procs : CreateLock(p)
    \/ \E p \in Procs : CreateStore(p)
    \/ \E p \in Procs : CloseDriverPop(p)
    \/ \E p \in Procs : CloseDriverQuit(p)
    \/ \E p \in Procs, t \in Tokens : ResolveCall(p, t)
    \/ \E p \in Procs : GetOrCreateCheck(p)
    \/ \E p \in Procs : GetOrCreateReuse(p)
    \/ \E p \in Procs : GetOrCreateConstruct(p)
    \/ \E p \in Procs : GetOrCreateLogin(p)
    \/ \E p \in Procs : GetOrCreateStore(p)
    \/ \E p \in Procs : GetOrCreateExcept(p)
    \/ \E p \in Procs : GetOrCreateExceptLookup(p)
    \/ \E p \in Procs : GetOrCreateExceptQuit(p)
    \/ \E p \in Procs : GetOrCreateExceptDel(p)
    \/ \E p \in Procs, t \in Tokens : CloseSessionCall(p, t)
    \/ \E p \in Procs : CloseAllCall(p)
    \/ \E p \in Procs : CloseAllSnapshot(p)
    \/ \E p \in Procs : CloseAllLoop(p)
    \/ \E p \in Procs : Return(p)

SpecRace == Init /\ [][NextRace]_vars

\* every other thread is idle
Alone(p) == \A q \in Procs \ {p} : pc[q] = "idle"

\* one call at a time, on supplied and generated tokens
NextSeq ==
    \/ \E p \in Procs, c \in CookieInputs, t \in TokenArgs, v \in BOOLEAN :
         Alone(p) /\ CreateCall(p, c, t, v)
    \/ \E p \in Procs : Alone(p) /\ CreateValidate(p)
    \/ \E p \in Procs : Alone(p) /\ CreateLock(p)
    \/ \E p \in Procs : Alone(p) /\ CreateStore(p)
    \/ \E p \in Procs : Alone(p) /\ CloseDriverPop(p)
    \/ \E p \in Procs : Alone(p) /\ CloseDriverQuit(p)
    \/ \E p \in Procs, t \in AllTokens : Alone(p) /\ ResolveCall(p, t)
    \/ \E p \in Procs : Alone(p) /\ GetOrCreateCheck(p)
    \/ \E p \in Procs : Alone(p) /\ GetOrCreateReuse(p)
    \/ \E p \in Procs : Alone(p) /\ GetOrCreateConstruct(p)
    \/ \E p \in Procs : Alone(p) /\ GetOrCreateLogin(p)
    \/ \E p \in Procs : Alone(p) /\ GetOrCreateStore(p)
    \/ \E p \in Procs : Alone(p) /\ GetOrCreateExcept(p)
    \/ \E p \in Procs, t \in AllTokens : Alone(p) /\ CloseSessionCall(p, t)
    \/ \E p \in Procs : Alone(p) /\ CloseAllCall(p)
    \/ \E p \in Procs : Alone(p) /\ CloseAllSnapshot(p)
    \/ \E p \in Procs : Alone(p) /\ CloseAllLoop(p)
    \/ \E p \in Procs : Alone(p) /\ Return(p)

SpecSeq == Init /\ [][NextSeq]_vars

\* one client that keeps several sessions: tokens it supplies, one cookie,
\* no validation
ManyTokens == {"T1", "T2", "T3"}

Client == "p1"

NextMany ==
    \/ \E t \in ManyTokens : CreateCall(Client, AQEtest123, t, FALSE)
    \/ CreateLock(Client)
    \/ CreateStore(Client)
    \/ CloseDriverPop(Client)
    \/ CloseDriverQuit(Client)
    \/ \E t \in ManyTokens : ResolveCall(Client, t)
    \/ GetOrCreateCheck(Client)
    \/ GetOrCreateReuse(Client)
    \/ GetOrCreateConstruct(Client)
    \/ GetOrCreateLogin(Client)
    \/ GetOrCreateStore(Client)
    \/ GetOrCreateExcept(Client)
    \/ CloseAllCall(Client)
    \/ CloseAllSnapshot(Client)
    \/ CloseAllLoop(Client)
    \/ \E t \in ManyTokens \cup {NoToken} : ToolCloseSession(Client, t)
    \/ \E t \in ManyTokens : CloseSessionCall(Client, t)
    \/ ListSessions(Client)
    \/ ListSessionsRead(Client)
    \/ Return(Client)

SpecMany == Init /\ [][NextMany]_vars

\* the client keeps sessions on two tokens, resolves their drivers and
\* lists the sessions, while the other thread closes all sessions: every
\* interleaving of the reads of list_sessions with the steps of
\* close_all_drivers
ListTokens == {"T1", "T2"}

NextList ==
    \/ \E t \in ListTokens : CreateCall(Client, AQEtest123, t, FALSE)
    \/ CreateLock(Client)
    \/ CreateStore(Client)
    \/ \E p \in Procs : CloseDriverPop(p)
    \/ \E p \in Procs : CloseDriverQuit(p)
    \/ \E t \in ListTokens : ResolveCall(Client, t)
    \/ GetOrCreateCheck(Client)
    \/ GetOrCreateReuse(Client)
    \/ GetOrCreateConstruct(Client)
    \/ GetOrCreateLogin(Client)
    \/ GetOrCreateStore(Client)
    \/ GetOrCreateExcept(Client)
    \/ ListSessions(Client)
    \/ ListSessionsRead(Client)
    \/ \E p \in Procs \ {Client} : CloseAllCall(p)
    \/ \E p \in Procs \ {Client} : CloseAllSnapshot(p)
    \/ \E p \in Procs \ {Client} : CloseAllLoop(p)
    \/ \E p \in Procs : Return(p)

SpecList == Init /\ [][NextList]_vars

\* one client, one token, every cookie string: what is stored and what is
\* sent to the login routine
NextStore ==
    \/ \E c \in EdgeCookieInputs, t \in Tokens : CreateCall(Client, c, t, FALSE)
    \/ CreateLock(Client)
    \/ CreateStore(Client)
    \/ CloseDriverPop(Client)
    \/ CloseDriverQuit(Client)
    \/ \E t \in Tokens : ResolveCall(Client, t)
    \/ GetOrCreateCheck(Client)
    \/ GetOrCreateReuse(Client)
    \/ GetOrCreateConstruct(Client)
    \/ GetOrCreateLogin(Client)
    \/ GetOrCreateStore(Client)
    \/ GetOrCreateExcept(Client)
    \/ Return(Client)

SpecStore == Init /\ [][NextStore]_vars

\* drivers are constructed and logged in outside the pool, one call at a
\* time, in every login environment
NextLogin ==
    \/ \E p \in Procs : Alone(p) /\ CreateChromeDriver(p)
    \/ \E p \in Procs, d \in 1..MaxDrivers, env \in LoginEnvs :
         Alone(p) /\ LoginCall(p, d, LiAt \o AQEtest123, env)
    \/ \E p \in Procs : Alone(p) /\ Return(p)

SpecLogin == Init /\ [][NextLogin]_vars

\* chat messages for two tokens, handled one at a time
NextAgent ==
    \/ \E t \in ChatTokens, k \in MessageKinds : HandleMessage(Client, t, k)
    \/ HandleMessageFetched(Client)
    \/ Return(Client)

SpecAgent == Init /\ [][NextAgent]_vars

\* threads run the operations of the session manager concurrently on one
\* token; every operation that takes _session_lock requests, acquires and
\* releases it in steps of its own; the client thread also resolves drivers
NextLock ==
    \/ \E p \in Procs, t \in Tokens : CreateCall(p, AQEtest123, t, FALSE)
    \/ \E p \in Procs : CreateLock(p)
    \/ \E p \in Procs : CreateStore(p)
    \/ \E p \in Procs : CloseDriverPop(p)
    \/ \E p \in Procs : CloseDriverQuit(p)
    \/ \E p \in Procs, op \in LockedOps, t \in Tokens :
         SessionLockRequest(p, op, IF op \in {"cookie", "close"} THEN t
                                  ELSE NoToken)
    \/ \E p \in Procs : SessionLockAcquire(p)
    \/ \E p \in Procs : SessionLockedBody(p)
    \/ \E p \in Procs : ListSessionsRead(p)
    \/ \E p \in Procs : CloseAllSnapshot(p)
    \/ \E p \in Procs : CloseAllLoop(p)
    \/ \E t \in Tokens : ResolveCall(Client, t)
    \/ GetOrCreateCheck(Client)
    \/ GetOrCreateReuse(Client)
    \/ GetOrCreateConstruct(Client)
    \/ GetOrCreateLogin(Client)
    \/ GetOrCreateStore(Client)
    \/ GetOrCreateExcept(Client)
    \/ \E p \in Procs : Return(p)

\* a step of thread p that waits for nothing: the thread is scheduled, and
\* driver.quit, the driver's construction and the login return
Continue(p) ==
    \/ CreateStore(p)
    \/ CloseDriverPop(p)
    \/ CloseDriverQuit(p)
    \/ SessionLockedBody(p)
    \/ ListSessionsRead(p)
    \/ CloseAllSnapshot(p)
    \/ CloseAllLoop(p)
    \/ GetOrCreateCheck(p)
    \/ GetOrCreateReuse(p)
    \/ GetOrCreateConstruct(p)
    \/ GetOrCreateLogin(p)
    \/ GetOrCreateStore(p)
    \/ GetOrCreateExcept(p)

\* thread p gets _session_lock
Acquire(p) == CreateLock(p) \/ SessionLockAcquire(p)

\* a thread inside a call goes on, and a thread that waits for the lock
\* gets it when the lock stays free.  threading.Lock promises no order
\* among waiters: a thread that waits while the lock is taken again and
\* again need not get it
SpecLock ==
    /\ Init /\ [][NextLock]_vars
    /\ \A p \in Procs : WF_vars(Continue(p)) /\ WF_vars(Acquire(p))

(***************************************************************************)
(* Vocabulary of the properties.                                           *)
(***************************************************************************)
Drivers == 1..Len(drv)

Live(d) == drv[d].state = "live"

HasSession(t) == DictHas(sessions, t)

Pooled(t) == DictHas(active_drivers, t)

\* thread p has finished a call of operation op and holds its result
Done(p, op) == pc[p] = "done" /\ ret[p].op = op

\* resolve_driver returned a driver to thread p
Resolved(p) == Done(p, "resolve") /\ ret[p].kind = "ok"

\* no call is in progress
Quiescent == \A p \in Procs : pc[p] \in {"idle", "done"}


(***************************************************************************)
(* Properties.                                                             *)
(***************************************************************************)

\* C1: concurrent resolve_driver(T) calls construct one driver: no two live
\* drivers whose authentication has not failed exist for one token, so one
\* construction and one authentication serve all callers, and the callers
\* that hold a live driver for T hold the same one.
C1_OneDriverPerToken ==
    /\ \A d1, d2 \in Drivers :
         ( /\ drv[d1].tok = drv[d2].tok
           /\ Live(d1) /\ Live(d2)
           /\ drv[d1].auth # "failed" /\ drv[d2].auth # "failed" )
         => d1 = d2
    /\ \A p, q \in Procs :
         ( /\ Resolved(p) /\ Resolved(q)
           /\ ret[p].tok = ret[q].tok
           /\ Live(ret[p].drv) /\ Live(ret[q].drv) )
         => ret[p].drv = ret[q].drv

\* the pooled driver of a token was authenticated with the stored credential
PoolMatchesStore ==
    \A t \in AllTokens :
        (HasSession(t) /\ Pooled(t))
        => drv[DictVal(active_drivers, t)].cookie = DictVal(sessions, t)

\* a resolve_driver that returns now returns a driver authenticated with the
\* credential stored now
ReturnMatchesStore ==
    \A p \in Procs :
        (pc[p] # "done" /\ Resolved(p)' /\ DictHas(sessions', ret'[p].tok))
        => drv'[ret'[p].drv].cookie = DictVal(sessions', ret'[p].tok)

\* C3: replacing a credential is atomic for other callers: once c2 is stored
\* for T, the pool never holds for T, and no resolve_driver(T) returns, a
\* driver that was authenticated with the old credential c1.
C3_AtomicReplace == [](PoolMatchesStore) /\ [][ReturnMatchesStore]_vars

\* C4: whenever no call is in progress, every token that has a pooled driver
\* has a session record.
C4_PooledHasRecord ==
    Quiescent => \A t \in DictKeys(active_drivers) : HasSession(t)

\* C2: after a credential is replaced, the driver pooled under the old
\* credential is quit and out of the pool; the next resolve_driver finds no
\* pooled driver, constructs one and logs it in with the stored credential; a
\* driver that resolve_driver returns is live and was authenticated with the
\* credential stored for its token.
C2_ReplaceEvicts ==
    \A p \in Procs :
        /\ (Done(p, "create") /\ ret[p].kind = "ok")
           => /\ ~Pooled(ret[p].tok)
              /\ ret[p].prev # NoDriver => ~Live(ret[p].prev)
        /\ Resolved(p)
           => /\ Live(ret[p].drv)
              /\ drv[ret[p].drv].auth = "ok"
              /\ HasSession(ret[p].tok)
              /\ drv[ret[p].drv].cookie = GetSessionCookie(ret[p].tok)
              /\ drv[ret[p].drv].sent =
                    NormalizeCookieValue(GetSessionCookie(ret[p].tok))
        /\ (Resolved(p) /\ ret[p].prev = NoDriver)
           => ret[p].made # NoDriver /\ ret[p].drv = ret[p].made

\* a second driver was made for a token whose first driver, authenticated
\* with another credential, has been quit
C2_Witness ==
    \E p \in Procs :
        /\ Resolved(p) /\ ret[p].made = 2
        /\ drv[1].tok = ret[p].tok /\ drv[1].auth = "ok" /\ ~Live(1)
        /\ drv[1].cookie # GetSessionCookie(ret[p].tok)

\* C5: when the login fails in get_or_create_driver, the driver the call
\* constructed has been quit when the error reaches the caller, and the pool
\* has no entry for the token.
C5_FailedLoginTearsDown ==
    \A p \in Procs :
        (Done(p, "resolve") /\ ret[p].kind \in LoginErrors /\ ret[p].made # NoDriver)
        => ~Live(ret[p].made) /\ ~Pooled(ret[p].tok)

\* C6: a login that times out is not retried, reaches the caller as
\* InvalidCredentialsError, and leaves no session record for the token.
C6_TimeoutEvicts ==
    \A p \in Procs :
        (Done(p, "resolve") /\ ret[p].login # <<>> /\ ret[p].login[1] = "timeout")
        => /\ Len(ret[p].login) = 1
           /\ ret[p].kind = "InvalidCredentialsError"
           /\ ~HasSession(ret[p].tok)

\* C7: the error of a failed login reaches the caller with the kind
\* login_to_linkedin classified it as: a challenge error on a challenge page,
\* InvalidCredentialsError otherwise.
C7_ClassificationKept ==
    \A p \in Procs :
        ( /\ Done(p, "resolve")
          /\ ret[p].inner \in {"CaptchaRequiredError", "SecurityChallengeError",
                               "InvalidCredentialsError"} )
        => ret[p].kind = ret[p].inner

\* C8: a resolve_driver that returns leaves its driver pooled, and a
\* resolve_driver that begins with a driver pooled for its token returns
\* that driver, constructs none and makes no login attempt.
C8_ReuseWithoutConstruction ==
    \A p \in Procs :
        /\ Resolved(p) => GetActiveDriver(ret[p].tok) = ret[p].drv
        /\ (Done(p, "resolve") /\ ret[p].prev # NoDriver)
           => /\ ret[p].kind = "ok"
              /\ ret[p].drv = ret[p].prev
              /\ ret[p].made = NoDriver
              /\ ret[p].login = <<>>

\* a resolve_driver returned the driver that was pooled when it began
C8_Witness ==
    \E p \in Procs :
        Resolved(p) /\ ret[p].prev # NoDriver /\ ret[p].drv = ret[p].prev

\* a record appears for a token only by the store step of
\* create_or_update_session for that token
OnlyCreateStores ==
    \A t \in AllTokens :
        (~HasSession(t) /\ DictHas(sessions', t))
        => \E p \in Procs :
             pc[p] = "cu_store" /\ loc[p].tok = t /\ pc'[p] = "done"

\* C9: after close_session(T) the token has no record and no pooled driver;
\* resolve_driver on a token without a record raises CredentialsNotFoundError
\* and constructs nothing; the record comes back only through
\* create_or_update_session.
C9_ClosedStaysClosed ==
    /\ [](\A p \in Procs :
            /\ Done(p, "close") => ~HasSession(ret[p].tok) /\ ~Pooled(ret[p].tok)
            /\ (Done(p, "resolve") /\ ~HasSession(ret[p].tok))
               => /\ ret[p].kind = "CredentialsNotFoundError"
                  /\ ret[p].made = NoDriver
                  /\ ret[p].drv = NoDriver)
    /\ [][OnlyCreateStores]_vars

\* resolve_driver raised CredentialsNotFoundError for a token that had a
\* session with a driver, now quit
C9_Witness ==
    \E p \in Procs :
        /\ Done(p, "resolve") /\ ret[p].kind = "CredentialsNotFoundError"
        /\ \E d \in Drivers :
             drv[d].tok = ret[p].tok /\ drv[d].auth = "ok" /\ ~Live(d)

\* the canonical form of a cookie: trimmed, with exactly the li_at= prefix
\* the trimmed value lacks
CanonicalCookie(c) ==
    IF StartsWith(Strip(c), LiAt) THEN Strip(c) ELSE LiAt \o Strip(c)


\* C10: after create_or_update_session(c, T) succeeds, get_session_cookie(T)
\* is the canonical form of c (AQEtest123 gives li_at=AQEtest123), and
\* storing the stored value again would store the same value.
C10_StoredCanonical ==
    \A p \in Procs :
        (Done(p, "create") /\ ret[p].kind = "ok")
        => /\ HasSession(ret[p].tok)
           /\ GetSessionCookie(ret[p].tok) = CanonicalCookie(ret[p].arg)
           /\ ret[p].arg = AQEtest123
              => GetSessionCookie(ret[p].tok) = LiAt \o AQEtest123
           /\ NormalizeCookieForStorage(GetSessionCookie(ret[p].tok)).stored
                 = GetSessionCookie(ret[p].tok)

\* the scenario of the specification: AQEtest123 stored as li_at=AQEtest123
\* over a record that held another cookie
C10_Witness ==
    \E p \in Procs :
        /\ Done(p, "create") /\ ret[p].kind = "ok" /\ ret[p].arg = AQEtest123
        /\ GetSessionCookie(ret[p].tok) = LiAt \o AQEtest123
        /\ \E d \in Drivers : drv[d].tok = ret[p].tok /\ drv[d].cookie = LiAt \o <<"B">>

\* C11: close_all_sessions returns the number of session records present
\* when it was called, whatever the number of pooled drivers, and (nothing
\* else running) leaves the session map and the driver pool empty.
C11_CloseAllCountsRecords ==
    \A p \in Procs :
        Done(p, "close_all")
        => /\ ret[p].kind = "ok"
           /\ ret[p].count = Cardinality(DictKeys(ret[p].before.sessions))
           /\ sessions = <<>>
           /\ active_drivers = <<>>

\* three records and two pooled drivers gave 3
C11_Witness ==
    \E p \in Procs :
        /\ Done(p, "close_all") /\ ret[p].count = 3
        /\ Cardinality(DictKeys(ret[p].before.active_drivers)) = 2

\* the positions at which a thread is inside a blocking browser call: the
\* cookie probe, driver construction, authentication, driver.quit()
BlockingPcs == {"cu_validate", "gc_create", "gc_login", "cd_quit", "gc_exc_quit"}

\* C12: no thread holds _session_lock while it executes a blocking browser
\* or network call (driver construction, authentication, the cookie probe,
\* driver.quit()).
C12_NoBlockingUnderLock ==
    \A p \in Procs : lock = p => pc[p] \notin BlockingPcs

\* C13: every driver in the pool was registered after login_with_cookie
\* returned success for it: the pool never holds a driver whose
\* authentication failed or has not finished.
C13_PooledAuthenticated ==
    \A t \in DictKeys(active_drivers) :
        /\ GetActiveDriver(t) \in Drivers
        /\ drv[GetActiveDriver(t)].auth = "ok"

\* a driver is pooled while another one failed to log in or is logging in
C13_Witness ==
    /\ \E t \in DictKeys(active_drivers) : drv[GetActiveDriver(t)].auth = "ok"
    /\ \E d \in Drivers : drv[d].auth \in {"failed", "pending"}

\* C14: when the login routine raises its invalid-credential signal and the
\* driver's location afterwards contains /feed/ and no login marker,
\* login_with_cookie succeeds without a second attempt, and
\* get_or_create_driver registers and returns the driver instead of raising.
C14_FalseNegativeAccepted ==
    \A p \in Procs :
        ( /\ Done(p, "resolve")
          /\ ret[p].env.attempts[1] = "invalid"
          /\ "/feed/" \in ret[p].env.urls[1]
          /\ ~HasLoginMarker(ret[p].env.urls[1]) )
        => /\ ret[p].kind = "ok"
           /\ ret[p].login = <<"invalid">>
           /\ ret[p].made # NoDriver /\ ret[p].drv = ret[p].made
           /\ GetActiveDriver(ret[p].tok) = ret[p].drv
           /\ drv[ret[p].drv].auth = "ok"

\* a resolve whose login reported invalid credentials returned the new driver
C14_Witness ==
    \E p \in Procs :
        /\ Resolved(p) /\ ret[p].login = <<"invalid">>
        /\ ret[p].env.urls[1] = UrlFeed
        /\ GetActiveDriver(ret[p].tok) = ret[p].made

\* C15: login_with_cookie resolves every attempt to a definitive True or
\* False: no exception of the login routine or of reading the driver's
\* location reaches the caller, and the driver is left either authenticated
\* (True) or not (False).
C15_LoginDefinitive ==
    \A p \in Procs :
        Done(p, "login")
        => /\ ret[p].kind = "ok"
           /\ ret[p].flag \in BOOLEAN
           /\ drv[ret[p].drv].auth = (IF ret[p].flag THEN "ok" ELSE "failed")

\* the login routine reported invalid credentials, reading the location
\* raised, and the call returned False
C15_Witness ==
    \E p \in Procs :
        /\ Done(p, "login") /\ ret[p].kind = "ok" /\ ~ret[p].flag
        /\ ret[p].login = <<"invalid">>
        /\ ret[p].env.urls[1] = UrlRaises

\* C16: create_or_update_session(c, T, validate) whose probe finds the cookie
\* invalid raises InvalidCredentialsError and leaves the session map and the
\* pool as they were: the record and the pooled driver of T remain, and no
\* token is generated or stored.
C16_FailedValidationChangesNothing ==
    \A p \in Procs :
        (Done(p, "create") /\ ret[p].kind = "InvalidCredentialsError")
        => /\ sessions = ret[p].before.sessions
           /\ active_drivers = ret[p].before.active_drivers
           /\ ret[p].tok \notin GenTokens
           /\ ret[p].prev # NoDriver
              => GetActiveDriver(ret[p].tok) = ret[p].prev /\ Live(ret[p].prev)

\* the failed call named a token that has a record and a pooled driver
C16_Witness ==
    \E p \in Procs :
        /\ Done(p, "create") /\ ret[p].kind = "InvalidCredentialsError"
        /\ HasSession(ret[p].tok) /\ ret[p].prev # NoDriver
        /\ GetSessionCookie(ret[p].tok) # CanonicalCookie(ret[p].arg)

\* C17: a close_session(T) during which no other call runs returns true
\* exactly when a record or a pooled driver of T existed just before it (also
\* when only a driver existed and its teardown raised), and afterwards
\* neither exists.
C17_CloseReportsExistence ==
    \A p \in Procs :
        (Done(p, "close") /\ ret[p].solo)
        => /\ ret[p].flag <=> (ret[p].removed \/ ret[p].prev # NoDriver)
           /\ ~HasSession(ret[p].tok)
           /\ ~Pooled(ret[p].tok)

\* close_session on a token without record and pooled driver returned False
ClosedNothing ==
    \A p \in Procs :
        Done(p, "close")
        => /\ ~HasSession(ret[p].tok) /\ ~Pooled(ret[p].tok)
           /\ (~ret[p].removed /\ ret[p].prev = NoDriver)
              => ~ret[p].flag /\ ret[p].kind = "ok"

\* close_driver on a token without pooled driver changes nothing
CloseDriverNoOp ==
    \A p \in Procs :
        (pc[p] = "cd_pop" /\ pc'[p] # "cd_pop" /\ ~Pooled(loc[p].tok))
        => /\ UNCHANGED <<sessions, active_drivers, drv>>
           /\ pc'[p] # "cd_quit"
           /\ loc[p].op = "close" => pc'[p] = "done" /\ ret'[p].flag = loc[p].removed

\* the first step of close_session on a token without record changes nothing
CloseSessionNoOp ==
    \A p \in Procs :
        ( /\ pc[p] = "idle" /\ pc'[p] = "cd_pop" /\ loc'[p].op = "close"
          /\ ~HasSession(loc'[p].tok) )
        => /\ UNCHANGED <<sessions, active_drivers, drv>>
           /\ ~loc'[p].removed

\* C18: teardown is idempotent: close_driver(T) and close_session(T) on a
\* token with no record and no pooled driver return false, raise nothing and
\* change no state; after close_session(T) neither exists, so the second of
\* two consecutive close_session(T) calls returns false.
C18_TeardownIdempotent ==
    /\ []ClosedNothing
    /\ [][CloseDriverNoOp /\ CloseSessionNoOp]_vars

\* close_session returned False for a token whose driver had been torn down
C18_Witness ==
    \E p \in Procs :
        /\ Done(p, "close") /\ ~ret[p].flag /\ ret[p].kind = "ok"
        /\ \E d \in Drivers :
             drv[d].tok = ret[p].tok /\ drv[d].auth = "ok" /\ ~Live(d)

\* C19: when close_driver(T) has returned the pool has no entry for T, also
\* when driver.quit() raised, and the error of quit does not reach the caller
\* of close_driver, close_session or create_or_update_session.
C19_QuitErrorContained ==
    \A p \in Procs :
        /\ (pc[p] = "cu_store" \/ (pc[p] = "ca_loop" /\ loc[p].tok # NoToken))
           => ~Pooled(loc[p].tok)
        /\ Done(p, "close") => ~Pooled(ret[p].tok)
        /\ (pc[p] = "done" /\ ret[p].qerr)
           => /\ ret[p].kind = "ok"
              /\ ret[p].op = "create" => HasSession(ret[p].tok) /\ ~Pooled(ret[p].tok)
              /\ ret[p].prev # NoDriver => ~Live(ret[p].prev)

\* create_or_update_session returned normally although the quit of the
\* driver it evicted raised
C19_Witness ==
    \E p \in Procs :
        /\ Done(p, "create") /\ ret[p].qerr /\ ret[p].kind = "ok"
        /\ ret[p].prev # NoDriver /\ ~Pooled(ret[p].tok)

\* C20: close_all_drivers tears down every driver that was pooled when it
\* started: a quit that raises on one driver does not keep the others from
\* being quit and deregistered, and close_all_sessions still returns the
\* number of records it removed instead of raising.
C20_CloseAllIsolatesFailures ==
    \A p \in Procs :
        Done(p, "close_all")
        => /\ ret[p].kind = "ok"
           /\ ret[p].count = Len(ret[p].before.sessions)
           /\ \A t \in DictKeys(ret[p].before.active_drivers) :
                /\ ~Pooled(t)
                /\ ~Live(DictVal(ret[p].before.active_drivers, t))

\* two drivers were pooled, a quit raised, and the records were counted
C20_Witness ==
    \E p \in Procs :
        /\ Done(p, "close_all") /\ ret[p].qerr
        /\ Cardinality(DictKeys(ret[p].before.active_drivers)) = 2
        /\ ret[p].count = 2

\* C21: the MCP tool close_session, given the token of an existing session,
\* removes the record and closes the pooled driver before it reports
\* success, and reports not_found for a token with neither record nor driver.
C21_ToolClosesSession ==
    \A p \in Procs :
        Done(p, "tool_close")
        => IF ret[p].removed \/ ret[p].prev # NoDriver
           THEN /\ ret[p].status = "success"
                /\ ~HasSession(ret[p].tok) /\ ~Pooled(ret[p].tok)
                /\ ret[p].prev # NoDriver => ~Live(ret[p].prev)
           ELSE ret[p].status = "not_found"

\* C22: every stored credential begins with li_at=, whether the caller gave
\* the raw or the prefixed form, and stripping the prefix from the stored
\* value as _normalize_cookie_value does before login gives exactly the raw
\* value _normalize_cookie_for_storage computed for the same input.
C22_PrefixRoundTrip ==
    /\ \A i \in 1..Len(sessions) :
         /\ StartsWith(sessions[i].v, LiAt)
         /\ LiAt \o NormalizeCookieValue(sessions[i].v) = sessions[i].v
    /\ \A p \in Procs :
         (Done(p, "create") /\ ret[p].kind = "ok")
         => NormalizeCookieValue(GetSessionCookie(ret[p].tok))
               = NormalizeCookieForStorage(ret[p].arg).raw
    /\ \A d \in Drivers :
         drv[d].auth # "pending" => LiAt \o drv[d].sent = drv[d].cookie

\* "li_at=li_at=B" was stored as given and a login was sent "li_at=B"
C22_Witness ==
    /\ \E p \in Procs :
         /\ Resolved(p) /\ HasSession(ret[p].tok)
         /\ GetSessionCookie(ret[p].tok) = LiAt \o LiAt \o <<"B">>
         /\ drv[ret[p].drv].sent = LiAt \o <<"B">>

\* a login_with_cookie call leaves the page-load timeout of its driver as it
\* found it
LoginRestoresTimeout ==
    \A p \in Procs :
        (pc[p] = "idle" /\ pc'[p] = "done" /\ ret'[p].op = "login")
        => drv'[ret'[p].drv].plt = drv[ret'[p].drv].plt

\* C23: after login_with_cookie returns, on any path (success, timeout,
\* retries exhausted, redirect to login, inconclusive verification, an
\* exception inside), the page-load timeout of the driver is the steady-state
\* value it had before the attempt, not the one used during authentication.
C23_TimeoutRestored ==
    /\ [](\A d \in Drivers : drv[d].plt = DefaultPageLoadTimeout)
    /\ [][LoginRestoresTimeout]_vars

\* a login whose location read raised returned with the timeout restored
C23_Witness ==
    \E p \in Procs :
        /\ Done(p, "login") /\ ~ret[p].flag
        /\ ret[p].env.attempts[1] = "ok" /\ ret[p].env.urls[1] = UrlRaises
        /\ drv[ret[p].drv].plt = DefaultPageLoadTimeout

\* C24: the page-load timeout in force while the login routine runs is
\* strictly greater than the steady-state timeout the driver has before and
\* after authentication.
C24_AuthTimeoutLonger ==
    \A p \in Procs :
        (Done(p, "login") /\ ret[p].login # <<>>)
        => LoginWithCookie(ret[p].env).during > drv[ret[p].drv].plt

\* the list returned has one entry per token the store held during the
\* call, in the order of the map
ListsStore(p) ==
    LET keys == DictKeyList(ret[p].before.sessions) IN
    /\ ret[p].kind = "ok"
    /\ Len(ret[p].listed) = Len(keys)
    /\ \A i \in 1..Len(keys) : ret[p].listed[i].session_token = keys[i]
    /\ \A i, j \in 1..Len(keys) : keys[i] = keys[j] => i = j

\* the has_driver values are those of the pool at one moment of the call:
\* active_drivers held, at one moment between the acquisition of the lock
\* and the return, drivers for exactly the tokens listed with has_driver
ListsPool(p) ==
    \E pool \in ret[p].pools :
        \A i \in 1..Len(ret[p].listed) :
            ret[p].listed[i].has_driver
               <=> ret[p].listed[i].session_token \in pool

ListMatches ==
    \A p \in Procs : Done(p, "list") => ListsStore(p) /\ ListsPool(p)

\* thread p takes a step of list_sessions
ListStep(p) ==
    \/ pc[p] # "ls_read" /\ pc'[p] = "ls_read"
    \/ pc[p] = "ls_read" /\ (pc'[p] # "ls_read" \/ loc'[p].todo # loc[p].todo)

\* list_sessions changes neither map, and the store does not change while
\* the call holds the lock
ListChangesNothing ==
    \A p \in Procs :
        /\ ListStep(p) => UNCHANGED <<sessions, active_drivers, drv>>
        /\ pc[p] = "ls_read" => UNCHANGED sessions

\* storing a cookie appends a new token and leaves a known token in place
StoreKeepsPosition ==
    \A p \in Procs :
        (pc[p] = "cu_store" /\ pc'[p] = "done")
        => DictKeyList(sessions') =
              IF HasSession(loc[p].tok) THEN DictKeyList(sessions)
              ELSE Append(DictKeyList(sessions), loc[p].tok)

\* C25: list_sessions returns exactly one entry per token in the session
\* map, in insertion order (an overwritten token keeps its place), with
\* has_driver true exactly when the pool holds a driver for the token at the
\* time of the call, and changes neither the map nor the pool.
C25_ListSessions ==
    /\ []ListMatches
    /\ [][ListChangesNothing /\ StoreKeepsPosition]_vars

\* what of C25 does not depend on the pool: the tokens listed, their order,
\* and that the call changes nothing
ListTokensRight ==
    /\ [](\A p \in Procs : Done(p, "list") => ListsStore(p))
    /\ [][ListChangesNothing /\ StoreKeepsPosition]_vars

\* C26: create_or_update_session with a cookie that is empty after trimming
\* fails with ValueError before any state change: both maps are as they
\* were, no driver is evicted and no token is generated.
C26_BlankCookieRejected ==
    \A p \in Procs :
        Done(p, "create")
        => /\ Strip(ret[p].arg) = <<>> <=> ret[p].kind = "ValueError"
           /\ ret[p].kind = "ValueError"
              => /\ sessions = ret[p].before.sessions
                 /\ active_drivers = ret[p].before.active_drivers
                 /\ ret[p].tok \notin GenTokens
                 /\ \A g \in GenTokens :
                      HasSession(g) => DictHas(ret[p].before.sessions, g)
                 /\ ret[p].prev # NoDriver
                    => /\ Live(ret[p].prev)
                       /\ GetActiveDriver(ret[p].tok) = ret[p].prev

\* a blank cookie was rejected for a token that has a record and a driver
C26_Witness ==
    \E p \in Procs :
        /\ Done(p, "create") /\ ret[p].kind = "ValueError"
        /\ ret[p].arg = <<" ", " ">>
        /\ HasSession(ret[p].tok) /\ ret[p].prev # NoDriver

\* C27: create_or_update_session stores the session under, and returns, the
\* token the caller supplied, for every string including the empty one; it
\* generates a token only when none (None) is supplied.
C27_SuppliedTokenKept ==
    \A p \in Procs :
        (Done(p, "create") /\ ret[p].kind = "ok")
        => /\ HasSession(ret[p].tok)
           /\ ret[p].targ # NoToken => ret[p].tok = ret[p].targ
           /\ ret[p].targ = NoToken => ret[p].tok \in GenTokens

\* C28: when the login routine raises an exception that is neither a timeout
\* nor the invalid-credential signal, login_with_cookie retries exactly once;
\* if the second attempt raises such an exception too, it returns False
\* without reading the driver's location.  The routine is invoked once or
\* twice per call, and every call returns.
C28_RetryOnce ==
    \A p \in Procs :
        Done(p, "login")
        => /\ Len(ret[p].login) \in 1..2
           /\ ret[p].login[1] = ret[p].env.attempts[1]
           /\ Len(ret[p].login) = 2 <=> ret[p].env.attempts[1] = "other"
           /\ Len(ret[p].login) = 2
              => ret[p].login[2] = ret[p].env.attempts[2]
           /\ ret[p].login = <<"other", "other">>
              => /\ ret[p].kind = "ok" /\ ~ret[p].flag
                 /\ ret[p].count = 0
                 /\ drv[ret[p].drv].auth = "failed"

\* two attempts both raised, and the call returned False although the
\* driver's location was an authenticated one
C28_Witness ==
    \E p \in Procs :
        /\ Done(p, "login") /\ ret[p].login = <<"other", "other">>
        /\ ~ret[p].flag /\ ret[p].count = 0
        /\ ret[p].env.urls[1] = UrlFeed

\* the login loop of the call ended in the verification of the location
Verified(r) == r.login[Len(r.login)] \in {"ok", "invalid"}

\* C29: in the verification, a location with neither a login marker nor an
\* authenticated-area marker is read again exactly once: the call succeeds
\* only if the second reading has an authenticated-area marker and no login
\* marker, and fails if the second reading has neither.  A first reading
\* that has a marker is not read again.
C29_SecondReading ==
    \A p \in Procs :
        (Done(p, "login") /\ Verified(ret[p])
         /\ ret[p].env.urls[1] # UrlRaises)
        => LET u1 == ret[p].env.urls[1]
               u2 == ret[p].env.urls[2]
           IN IF ~HasLoginMarker(u1) /\ ~HasAuthMarker(u1)
              THEN /\ ret[p].count = 2
                   /\ ret[p].flag <=> /\ u2 # UrlRaises
                                      /\ HasAuthMarker(u2)
                                      /\ ~HasLoginMarker(u2)
              ELSE ret[p].count = 1

\* a first reading with no marker was followed by a second one in the
\* authenticated area, and the call returned True
C29_Witness ==
    \E p \in Procs :
        /\ Done(p, "login") /\ Verified(ret[p])
        /\ ret[p].env.urls = <<UrlChallenge, UrlFeed>>
        /\ ret[p].flag /\ ret[p].count = 2

\* a first and a second reading with no marker: the call returned False
C29_WitnessNeither ==
    \E p \in Procs :
        /\ Done(p, "login") /\ Verified(ret[p])
        /\ ret[p].env.urls = <<UrlBlank, UrlChallenge>>
        /\ ~ret[p].flag /\ ret[p].count = 2

\* the step of get_or_create_driver that calls create_chrome_driver either
\* yields a driver and goes on to the login, or ends the call
ConstructionStep(p) ==
    pc[p] = "gc_create" /\ pc'[p] # "gc_create"
    => IF Len(drv') > Len(drv)
       THEN pc'[p] = "gc_login"
       ELSE /\ pc'[p] = "done"
            /\ ret'[p].kind = "DriverInitializationError"
            /\ ret'[p].tok = loc[p].tok
            /\ ret'[p].made = NoDriver /\ ret'[p].drv = NoDriver
            /\ ret'[p].login = <<>>
            /\ UNCHANGED <<sessions, active_drivers, drv>>

\* C30: when the construction of the driver raises in
\* get_or_create_driver(cookie, T), the call fails with
\* DriverInitializationError: the construction is not tried again, no
\* authentication is attempted, and the pool is as it was.
C30_ConstructionFailure ==
    /\ [](\A p \in Procs :
            (Done(p, "resolve") /\ ret[p].kind = "DriverInitializationError")
            => /\ ret[p].made = NoDriver /\ ret[p].drv = NoDriver
               /\ ret[p].login = <<>>)
    /\ [][\A p \in Procs : ConstructionStep(p)]_vars

\* a resolve failed in the construction while another token's driver was
\* pooled and a further driver could have been made
C30_Witness ==
    \E p \in Procs :
        /\ Done(p, "resolve") /\ ret[p].kind = "DriverInitializationError"
        /\ ret[p].made = NoDriver
        /\ HasSession(ret[p].tok)
        /\ active_drivers # <<>> /\ Len(drv) < MaxDrivers
        /\ \A d \in Drivers :
             Live(d) /\ \E t \in AllTokens \cup ManyTokens : GetActiveDriver(t) = d

\* the operation and the token of the call of thread p that takes a step
StepOp(p) ==
    IF pc[p] # "idle" THEN loc[p].op
    ELSE IF pc'[p] = "done" THEN ret'[p].op ELSE loc'[p].op

StepToken(p) ==
    IF pc'[p] = "done" THEN ret'[p].tok ELSE loc'[p].tok

\* a step of a create_or_update_session or close_session call on token T
\* leaves the record, the pool entry and the driver of every other token as
\* they were; a step of create_or_update_session adds no pool entry
FrameStep(p) ==
    (pc'[p] # pc[p] /\ StepOp(p) \in {"create", "close"})
    => /\ \A t \in (DictKeys(sessions) \cup DictKeys(sessions')
                    \cup DictKeys(active_drivers)
                    \cup DictKeys(active_drivers')) \ {StepToken(p)} :
            /\ HasSession(t) <=> DictHas(sessions', t)
            /\ HasSession(t) => DictVal(sessions', t) = DictVal(sessions, t)
            /\ Pooled(t) <=> DictHas(active_drivers', t)
            /\ Pooled(t)
               => /\ DictVal(active_drivers', t) = DictVal(active_drivers, t)
                  /\ drv'[DictVal(active_drivers, t)]
                       = drv[DictVal(active_drivers, t)]
       /\ StepOp(p) = "create"
          => DictKeys(active_drivers') \subseteq DictKeys(active_drivers)

\* C31: create_or_update_session(c, T) and close_session(T) leave the
\* session record and the pooled driver of every token other than T
\* unchanged, and create_or_update_session never adds an entry to the pool.
C31_OtherTokensUntouched == [][\A p \in Procs : FrameStep(p)]_vars

\* a create or a close ended for a token whose driver it quit, while two
\* other tokens have records and one of them a live pooled driver
C31_Witness ==
    \E p \in Procs :
        /\ pc[p] = "done" /\ ret[p].op \in {"create", "close"}
        /\ ret[p].prev # NoDriver /\ ~Live(ret[p].prev)
        /\ \E t \in DictKeys(active_drivers) \ {ret[p].tok} :
             Live(GetActiveDriver(t)) /\ HasSession(t)
        /\ Cardinality(DictKeys(sessions) \ {ret[p].tok}) = 2

\* the positions of get_or_create_driver's handler of a failed login
CleanupPcs == {"gc_except", "gc_exc_get", "gc_exc_quit", "gc_exc_del"}

\* a step of the handler of thread p, whose own driver is loc[p].d, leaves
\* every other driver and every pool entry of another driver as they were
CleanupSparesOthers(p) ==
    (pc[p] \in CleanupPcs /\ pc'[p] # pc[p])
    => /\ \A d \in Drivers \ {loc[p].d} : drv'[d] = drv[d]
       /\ \A t \in DictKeys(active_drivers) :
            DictVal(active_drivers, t) # loc[p].d
            => /\ DictHas(active_drivers', t)
               /\ DictVal(active_drivers', t) = DictVal(active_drivers, t)

\* C32: a get_or_create_driver(cookie, T) call whose authentication fails
\* never tears down or deregisters a driver that a different, successful
\* call registered for T while the failing call was in progress.
C32_FailedCallSparesOthers == [][\A p \in Procs : CleanupSparesOthers(p)]_vars

\* the positions at which a thread waits for _session_lock, and those
\* inside a with block
LockWaitPcs == {"cu_lock", "sm_lock"}

HoldsLock(p) ==
    \/ pc[p] \in {"sm_body", "ls_read"}
    \/ pc[p] \in {"cd_pop", "cd_quit", "cu_store"} /\ loc[p].op = "create"

\* the lock is held by exactly the thread that is inside a with block
LockMatchesBlock == \A p \in Procs : lock = p <=> HoldsLock(p)

\* C33: under any interleaving of create_or_update_session,
\* get_session_cookie, close_session, close_all_sessions and list_sessions
\* across threads, and provided every driver.quit returns, there is no
\* deadlock: a thread that requests _session_lock eventually acquires it,
\* and the lock is released on every exit of a with block, exits by
\* exception included.
C33_NoDeadlock ==
    /\ []LockMatchesBlock
    /\ \A p \in Procs : (pc[p] \in LockWaitPcs) ~> (lock = p)
    /\ \A p \in Procs : (lock = p) ~> (lock # p)

\* C33 as amended: there is no deadlock: the lock is held by exactly the
\* thread inside a with block, every holder releases it on every exit of
\* the block, exits by exception included, and while a thread waits for
\* the free lock some thread acquires it; one thread may wait for ever
\* while others take the lock again and again.
C33_NoDeadlockAmended ==
    /\ []LockMatchesBlock
    /\ \A p \in Procs : (lock = p) ~> (lock = "none")
    /\ ((\E p \in Procs : pc[p] \in LockWaitPcs) /\ lock = "none")
          ~> (lock # "none")

\* a thread waits for the lock while the other one, inside
\* create_or_update_session, quits a driver with the lock held
C33_Witness ==
    \E p, q \in Procs :
        /\ pc[p] = "sm_lock" /\ loc[p].op = "cookie"
        /\ lock = q /\ pc[q] = "cd_quit" /\ loc[q].op = "create"

\* get_session_cookie left its with block by CredentialsNotFoundError and
\* the lock is free
C33_WitnessRaise ==
    \E p \in Procs :
        /\ Done(p, "cookie") /\ ret[p].kind = "CredentialsNotFoundError"
        /\ lock = "none"
        /\ \E q \in Procs : pc[q] = "sm_lock"

\* C34: every credential create_or_update_session accepted and stored has a
\* non-empty raw value: the part after the li_at= prefix, which is what the
\* login routine is later handed, is never the empty string.
C34_RawNonEmpty ==
    /\ \A i \in 1..Len(sessions) : NormalizeCookieValue(sessions[i].v) # <<>>
    /\ \A d \in Drivers : drv[d].auth # "pending" => drv[d].sent # <<>>

\* the entries kept for a token are the last ones recorded for it, in the
\* order in which they were recorded
KeepsMostRecent(t) ==
    LET h == GetHistory(history, t) IN
    \A i \in 1..Len(h) : h[i].content = chat.recorded[t] - Len(h) + i

\* C35: after any sequence of handle_message calls the chat history kept
\* for each session token has at most 40 entries (20 turns), and when older
\* entries are dropped the entries kept are the most recent ones in their
\* original order.
C35_HistoryBounded ==
    /\ \A t \in ChatTokens :
         /\ Len(GetHistory(history, t)) <= HistoryLimit
         /\ Len(GetHistory(history, t))
              = (IF chat.recorded[t] > HistoryLimit THEN HistoryLimit
                 ELSE chat.recorded[t])
         /\ KeepsMostRecent(t)
    /\ \A p \in Procs :
         (Done(p, "chat") /\ ret[p].status = "success")
         => ret[p].count \in 1..HistoryLimit

\* more than 40 entries were recorded for a token, one of its fetches
\* raised, and the other token has a shorter history
C35_Witness ==
    \E t, u \in ChatTokens :
        /\ chat.recorded[t] > HistoryLimit + 1
        /\ Len(GetHistory(history, t)) = HistoryLimit
        /\ GetHistory(history, t)[1].content = chat.recorded[t] - HistoryLimit + 1
        /\ \E i \in 1..(HistoryLimit - 1) :
             /\ GetHistory(history, t)[i].role = "user"
             /\ GetHistory(history, t)[i + 1].role = "user"
        /\ u # t /\ Len(GetHistory(history, u)) \in 1..4

====
